---- MODULE Spec2Model ----
(***************************************************************************)
(* Albert: the injection engine of the content script and of the service   *)
(* worker (style injection, script execution with verified retry, removal, *)
(* auto-load, in-page navigation), the element store, and the chat turn of *)
(* the orchestrator.                                                       *)
(*                                                                         *)
(* The content script (injectElement, removeElement, autoLoadElements,     *)
(* handleUrlChange, retryAutoLoadOnNavigation) is the listing carried in   *)
(* src/README.md; executeElementJS and handleChat are in                   *)
(* src/background/service-worker.js; the store is src/lib/storage.js.      *)
(***************************************************************************)
EXTENDS Integers, Sequences, FiniteSets, TLC

VARIABLES
    elements,       \* chrome.storage.local 'albert_elements': a list of element records
    href,           \* window.location.href of the page
    links,          \* the URLs the host page can move to in place (none: not an SPA)
    lastKnownUrl,   \* _lastKnownUrl of the content script
    styleNodes,     \* per element id: number of <style data-albert-id=id> nodes in <head>
    nodes,          \* per tag value: number of body nodes the element scripts created,
                    \*   keyed by their data-albert-element value ("none": untagged)
    targetPresent,  \* whether the host page currently renders the node the scripts look for
    execQueue,      \* EXECUTE_ELEMENT_JS messages sent and not yet run by the service worker
    cycles,         \* the retry closures executeElementJS started in the page, per slot
    nav,            \* the closure of retryAutoLoadOnNavigation behind _navRetry
    oldNavs,        \* cancelled closures of retryAutoLoadOnNavigation whose debounce
                    \*   timer is still pending
    passes,         \* autoLoadElements calls suspended on their storage read: the
                    \*   currentUrl each captured
    bootPending,    \* waitForPageReady() has not resolved yet
    conversations,  \* chrome.storage.local 'albert_conversations': per normalized URL,
                    \*   the list of messages
    chat,           \* the chat turn of handleChat: its position and its locals
    ops,            \* the calls of storage.js on the element list that have read the
                    \*   list and not yet written it, and the ids generateId has given out
    call            \* the calls made of the function under study: arguments and results

vars == <<elements, href, links, lastKnownUrl, styleNodes, nodes, targetPresent,
          execQueue, cycles, nav, oldNavs, passes, bootPending, conversations, chat,
          ops, call>>

----------------------------------------------------------------------------
(* Bounds of the model                                                     *)

MaxQueue == 2       \* EXECUTE_ELEMENT_JS messages in flight at once
MaxPasses == 1      \* autoLoadElements calls suspended at once
MaxNodes == 2       \* nodes with one data-albert-element value in the page at once
MaxOldNavs == 1     \* cancelled navigation closures with a pending debounce timer
MaxOps == 2         \* calls of storage.js on the element list under way at once
MaxAppends == 52    \* messages appended to the log of one URL
MaxRequests == 2    \* calls of __albertLLM made on one page
MaxHistory == 22    \* messages in the log of a URL when a turn starts
MaxSends == 4    \* presses of the send button that are counted
MaxMutations == 2    \* mutation bursts of the host page during one retry cycle
MaxDocNodes == 2    \* elements of the document a selector is built in
MaxHtmlLen == 4     \* characters of the outerHTML of an inspected element
HtmlWindow == 30    \* page HTML lengths tried on each side of the ceiling
MaxSelectors == 6   \* selectors in one inspect request

(* Program constants                                                       *)

MAX_RETRIES == 10       \* executeElementJS
NAV_MAX_RETRIES == 8    \* retryAutoLoadOnNavigation
MAX_INSPECT_ROUNDS == 3 \* handleChat
INSPECT_SELECTOR_LIMIT == 5 \* buildSystemPrompt: "up to 5 selectors per inspect request"
MAX_HTML_LENGTH == 12000 \* buildPageContextMessage: maxHtmlLength
CONVERSATION_LIMIT == 50    \* addToConversation
HISTORY_LIMIT == 20    \* buildMessages
BASE_DELAY == 300    \* executeElementJS, ms
MAX_DELAY == 3000    \* executeElementJS, ms
MUTATION_DEBOUNCE == 100    \* executeElementJS, ms

----------------------------------------------------------------------------
(* Values                                                                  *)

ElementIds == {"e1", "e2"}

\* data-albert-element values: an element id, a name of the script's own
\* choosing, or "none" for nodes the script leaves untagged.
NoMarker == "none"
Tags == ElementIds \cup {"widget", NoMarker}

Cycles == DOMAIN cycles

\* No call of storage.js under way, no id generated yet.
NoOps == [issued |-> {}, pending |-> {}]

\* No call made.
NoCall == << >>

\* A URL is origin+pathname, search and hash.
Url(p, s, h) == [path |-> p, search |-> s, hash |-> h]
Hrefs == { Url("/a", "", ""), Url("/a", "", "#h"), Url("/a", "?q", ""), Url("/b", "", "") }

\* Code text: a sequence of tokens; Ws is a whitespace character.
Ws == " "
EmptyText == << >>
CssTexts == { EmptyText, <<"c">> }

\* The script of an element, by what running it does: the marker value it
\* tags its nodes with (and which the text carries literally), what it does
\* when its target is not rendered, and whether it checks for its own node
\* before creating one.  A script text spells one such program, with
\* whitespace anywhere between its tokens; a text that spells none (the empty
\* text, whitespace) runs and does nothing.
Programs == [marker : Tags, onMiss : {"throw", "quiet"}, guarded : BOOLEAN]
NoProgram == [marker |-> NoMarker, onMiss |-> "quiet", guarded |-> TRUE]
JsText(p) == << p.marker, p.onMiss, IF p.guarded THEN "guarded" ELSE "unguarded" >>
Prog(text) ==
    LET t == SelectSeq(text, LAMBDA ch : ch # Ws)
    IN  IF Len(t) < Len(JsText(NoProgram)) THEN NoProgram
        ELSE [marker |-> t[1], onMiss |-> t[2], guarded |-> t[3] = "guarded"]

\* A stored element record (the fields the engine reads).
StoredElement(id, u, en, js, css) ==
    [id |-> id, url |-> u, enabled |-> en, js |-> js, css |-> css]

\* No closure of retryAutoLoadOnNavigation: _navRetry is null.
IdleNav ==
    [active |-> FALSE, attempt |-> 0, calls |-> 0, timer |-> FALSE, observer |-> FALSE,
     debounce |-> FALSE, done |-> FALSE]

----------------------------------------------------------------------------
(* storage.js: normalizeUrl                                                *)

NormalizeUrl(u) == [u EXCEPT !.hash = ""]

----------------------------------------------------------------------------
(* Content script: removeElement, injectElement                            *)

\* The live page as the injection functions change it.
Dom(st, nd, q) == [style |-> st, nodes |-> nd, queue |-> q]

RemoveElementDom(d, id) ==
    [d EXCEPT !.style = [@ EXCEPT ![id] = 0],
              !.nodes = [@ EXCEPT ![id] = 0]]

InjectElementDom(d, el, cssOnly) ==
    LET r == RemoveElementDom(d, el.id)
        s == IF el.css # EmptyText
               THEN [r EXCEPT !.style = [@ EXCEPT ![el.id] = @ + 1]]
               ELSE r
    IN  IF el.js # EmptyText /\ ~cssOnly
          THEN [s EXCEPT !.queue = Append(@, [id |-> el.id, code |-> el.js])]
          ELSE s

\* matching.forEach(el => injectElement(el))
RECURSIVE InjectAll(_, _)
InjectAll(d, els) ==
    IF els = << >> THEN d
    ELSE InjectAll(InjectElementDom(d, Head(els), FALSE), Tail(els))

----------------------------------------------------------------------------
(* Service worker: executeElementJS, the closure it runs in the page       *)

IdleCycle ==
    [used |-> FALSE, id |-> "e1",
     code |-> [marker |-> NoMarker, onMiss |-> "quiet", guarded |-> FALSE],
     attempt |-> 0, runs |-> 0, timer |-> FALSE, observer |-> FALSE,
     debounce |-> FALSE, settled |-> FALSE, outcome |-> "none"]

\* code.match(/data-albert-element.../): the marker value the text carries.
ExpectedAlbertSelector(code) == code.marker

WasElementCreatedAlways(code, nd) == TRUE

WasElementCreated(code, nd) ==
    IF ExpectedAlbertSelector(code) = NoMarker THEN TRUE
    ELSE nd[ExpectedAlbertSelector(code)] > 0

\* new Function(code)(): the run throws, or changes the body.
Throws(code) == code.onMiss = "throw" /\ ~targetPresent

Creates(code, nd) == targetPresent /\ ~(code.guarded /\ nd[code.marker] > 0)

NodesAfterRun(code, nd) ==
    IF Creates(code, nd) THEN [nd EXCEPT ![code.marker] = @ + 1] ELSE nd

\* execute(): true iff the run did not throw and the marker is found.
ExecuteOk(code, nd) ==
    ~Throws(code) /\ WasElementCreated(code, NodesAfterRun(code, nd))

Cleanup(c) == [c EXCEPT !.settled = TRUE, !.observer = FALSE, !.timer = FALSE]

ScheduleRetryOffByOne(c) ==
    IF c.settled THEN c
    ELSE IF c.attempt + 1 > MAX_RETRIES + 1
           THEN Cleanup([c EXCEPT !.attempt = @ + 1, !.outcome = "exhausted"])
           ELSE [c EXCEPT !.attempt = @ + 1, !.timer = TRUE]

ScheduleRetry(c) ==
    IF c.settled THEN c
    ELSE IF c.attempt + 1 > MAX_RETRIES
           THEN Cleanup([c EXCEPT !.attempt = @ + 1, !.outcome = "exhausted"])
           ELSE [c EXCEPT !.attempt = @ + 1, !.timer = TRUE]

\* if (execute()) return; scheduleRetry();
Attempt(c, nd) ==
    LET r == [c EXCEPT !.runs = @ + 1]
    IN  IF ExecuteOk(c.code, nd)
          THEN Cleanup([r EXCEPT !.outcome = "success"])
          ELSE ScheduleRetry(r)

\* An observer callback that also clears the backoff timer.
ObservedCancelling(c) ==
    IF c.observer /\ ~c.settled THEN [c EXCEPT !.debounce = TRUE, !.timer = FALSE] ELSE c

\* The MutationObserver callback of a cycle, run for a change of the body:
\* it (re)arms the debounce timer unless the cycle is settled.
Observed(c) ==
    IF c.observer /\ ~c.settled THEN [c EXCEPT !.debounce = TRUE] ELSE c

ObservedNav(n) ==
    IF n.observer /\ ~n.done THEN [n EXCEPT !.debounce = TRUE] ELSE n

NotifyCycles(cs, changed) == IF changed THEN [c \in Cycles |-> Observed(cs[c])] ELSE cs

NotifyNav(n, changed) == IF changed THEN ObservedNav(n) ELSE n

\* A closure that is settled and has no timer left can never act again.
Dead(c) == ~c.used \/ (c.settled /\ ~c.debounce /\ ~c.timer)

\* Slots are numbered; a new closure takes the first slot that is free.
HasFreeCycle == \E c \in Cycles : Dead(cycles[c])

FreeCycle == CHOOSE c \in Cycles : Dead(cycles[c]) /\ \A d \in Cycles : Dead(cycles[d]) => c <= d

\* executeElementJS(tabId, jsCode, elementId): a new closure in the page makes
\* the immediate first attempt, then sets up the observer and the first timer.
ExecuteElementJS(id, text) ==
    /\ HasFreeCycle
    /\ LET c0 == [IdleCycle EXCEPT !.used = TRUE, !.id = id, !.code = Prog(text),
                                   !.runs = 1]
           nd == NodesAfterRun(Prog(text), nodes)
           c1 == IF ExecuteOk(Prog(text), nodes)
                   THEN Cleanup([c0 EXCEPT !.outcome = "success"])
                   ELSE ScheduleRetry([c0 EXCEPT !.observer = TRUE])
       IN  /\ \A t \in Tags : nd[t] <= MaxNodes
           /\ nodes' = nd
           /\ cycles' = [NotifyCycles(cycles, nd # nodes) EXCEPT ![FreeCycle] = c1]
           /\ nav' = NotifyNav(nav, nd # nodes)

\* The service worker takes one EXECUTE_ELEMENT_JS message and runs the code.
StartCycle(i) ==
    /\ i \in 1..Len(execQueue)
    /\ ExecuteElementJS(execQueue[i].id, execQueue[i].code)
    /\ execQueue' = SubSeq(execQueue, 1, i - 1) \o SubSeq(execQueue, i + 1, Len(execQueue))
    /\ UNCHANGED <<ops, call, chat, conversations, elements, href, links, lastKnownUrl, styleNodes, targetPresent, passes, oldNavs, bootPending>>

\* The backoff timer of cycle c fires; a cycle that gives up disables the
\* stored elements.
TimerFireDisabling(c) ==
    /\ cycles[c].timer
    /\ LET c0 == [cycles[c] EXCEPT !.timer = FALSE]
           ran == ~c0.settled
           nd == IF ran THEN NodesAfterRun(c0.code, nodes) ELSE nodes
           c1 == IF ran THEN Attempt(c0, nodes) ELSE c0
       IN  /\ \A t \in Tags : nd[t] <= MaxNodes
           /\ nodes' = nd
           /\ cycles' = NotifyCycles([cycles EXCEPT ![c] = c1], nd # nodes)
           /\ nav' = NotifyNav(nav, nd # nodes)
           /\ elements' = IF c1.outcome = "exhausted"
                            THEN [k \in 1..Len(elements) |->
                                     [elements[k] EXCEPT !.enabled = FALSE]]
                            ELSE elements
    /\ UNCHANGED <<ops, call, chat, conversations, href, links, lastKnownUrl, styleNodes,
                   targetPresent, execQueue, passes, oldNavs, bootPending>>

\* The backoff timer of cycle c fires.
TimerFire(c) ==
    /\ cycles[c].timer
    /\ LET c0 == [cycles[c] EXCEPT !.timer = FALSE]
           ran == ~c0.settled
           nd == IF ran THEN NodesAfterRun(c0.code, nodes) ELSE nodes
           c1 == IF ran THEN Attempt(c0, nodes) ELSE c0
       IN  /\ \A t \in Tags : nd[t] <= MaxNodes
           /\ nodes' = nd
           /\ cycles' = NotifyCycles([cycles EXCEPT ![c] = c1], nd # nodes)
           /\ nav' = NotifyNav(nav, nd # nodes)
    /\ UNCHANGED <<ops, call, chat, conversations, elements, href, links, lastKnownUrl, styleNodes, targetPresent, execQueue, passes, oldNavs, bootPending>>

\* The debounce timer of cycle c's observer fires.
DebounceFire(c) ==
    /\ cycles[c].debounce
    /\ LET c0 == [cycles[c] EXCEPT !.debounce = FALSE]
           ran == ~c0.settled
           nd == IF ran THEN NodesAfterRun(c0.code, nodes) ELSE nodes
           c1 == IF ran THEN Attempt([c0 EXCEPT !.timer = FALSE], nodes) ELSE c0
       IN  /\ \A t \in Tags : nd[t] <= MaxNodes
           /\ nodes' = nd
           /\ cycles' = NotifyCycles([cycles EXCEPT ![c] = c1], nd # nodes)
           /\ nav' = NotifyNav(nav, nd # nodes)
    /\ UNCHANGED <<ops, call, chat, conversations, elements, href, links, lastKnownUrl, styleNodes, targetPresent, execQueue, passes, oldNavs, bootPending>>

\* The host page changes its body: the target appears or goes.
HostMutation ==
    /\ targetPresent' \in BOOLEAN
    /\ cycles' = NotifyCycles(cycles, TRUE)
    /\ nav' = NotifyNav(nav, TRUE)
    /\ UNCHANGED <<ops, call, chat, conversations, elements, href, links, lastKnownUrl, styleNodes, nodes, execQueue, passes, oldNavs, bootPending>>

----------------------------------------------------------------------------
(* Content script: the INJECT_ELEMENT and REMOVE_ELEMENT messages          *)

InjectElementMsg(el, cssOnly) ==
    /\ Len(execQueue) < MaxQueue
    /\ LET d == InjectElementDom(Dom(styleNodes, nodes, execQueue), el, cssOnly)
       IN  /\ styleNodes' = d.style
           /\ nodes' = d.nodes
           /\ execQueue' = d.queue
           /\ cycles' = NotifyCycles(cycles, d.nodes # nodes)
           /\ nav' = NotifyNav(nav, d.nodes # nodes)
    /\ UNCHANGED <<ops, call, chat, conversations, elements, href, links, lastKnownUrl, targetPresent, passes, oldNavs, bootPending>>

RemoveElementMsg(id) ==
    /\ LET d == RemoveElementDom(Dom(styleNodes, nodes, execQueue), id)
       IN  /\ styleNodes' = d.style
           /\ nodes' = d.nodes
           /\ cycles' = NotifyCycles(cycles, d.nodes # nodes)
           /\ nav' = NotifyNav(nav, d.nodes # nodes)
    /\ UNCHANGED <<ops, call, chat, conversations, elements, href, links, lastKnownUrl, targetPresent, execQueue, passes, oldNavs, bootPending>>

----------------------------------------------------------------------------
(* Content script: autoLoadElements                                        *)

MatchingElementsIgnoringEnabled(els, u) ==
    SelectSeq(els, LAMBDA el : NormalizeUrl(el.url) = NormalizeUrl(u))

\* elements.filter(el => normalizeUrl(el.url) === normalizedCurrent && el.enabled)
MatchingElements(els, u) ==
    SelectSeq(els, LAMBDA el : NormalizeUrl(el.url) = NormalizeUrl(u) /\ el.enabled)

\* autoLoadElements() up to its await: it captures window.location.href.
CanStartPass == Len(passes) < MaxPasses

StartPass(ps) == Append(ps, href)

\* autoLoadElements() after its await: the stored list is read, filtered
\* against the captured URL, and every match is injected.
PassResume(i) ==
    /\ i \in 1..Len(passes)
    /\ LET d == InjectAll(Dom(styleNodes, nodes, execQueue),
                          MatchingElements(elements, passes[i]))
       IN  /\ Len(d.queue) <= MaxQueue
           /\ styleNodes' = d.style
           /\ nodes' = d.nodes
           /\ execQueue' = d.queue
           /\ cycles' = NotifyCycles(cycles, d.nodes # nodes)
           /\ nav' = NotifyNav(nav, d.nodes # nodes)
    /\ passes' = SubSeq(passes, 1, i - 1) \o SubSeq(passes, i + 1, Len(passes))
    /\ UNCHANGED <<ops, call, chat, conversations, elements, href, links, lastKnownUrl, targetPresent, oldNavs, bootPending>>

\* The tab loads a document at URL u (a first visit, or chrome.tabs.reload):
\* a new page, a new content script, nothing of the old page survives.
PageLoadEffect(u) ==
    /\ href' = u
    /\ lastKnownUrl' = u
    /\ styleNodes' = [id \in ElementIds |-> 0]
    /\ nodes' = [t \in Tags |-> 0]
    /\ targetPresent' \in BOOLEAN
    /\ execQueue' = << >>
    /\ cycles' = [c \in Cycles |-> IdleCycle]
    /\ nav' = IdleNav
    /\ oldNavs' = << >>
    /\ passes' = << >>
    /\ bootPending' = TRUE

PageLoad(u) ==
    /\ PageLoadEffect(u)
    /\ UNCHANGED <<ops, call, chat, conversations, elements, links>>

\* waitForPageReady().then(() => autoLoadElements())
Boot ==
    /\ bootPending
    /\ CanStartPass
    /\ bootPending' = FALSE
    /\ passes' = StartPass(passes)
    /\ UNCHANGED <<ops, call, chat, conversations, elements, href, links, lastKnownUrl, styleNodes, nodes, targetPresent,
                   execQueue, cycles, nav, oldNavs>>

----------------------------------------------------------------------------
(* Content script: handleUrlChange, retryAutoLoadOnNavigation              *)

\* The page changes its URL in place (pushState, replaceState, a hash link).
PushState(u) ==
    /\ u \in links
    /\ u # href
    /\ href' = u
    /\ UNCHANGED <<ops, call, chat, conversations, elements, links, lastKnownUrl, styleNodes, nodes, targetPresent,
                   execQueue, cycles, nav, oldNavs, passes, bootPending>>

NavCleanupKeepsTimer(n) == [n EXCEPT !.done = TRUE, !.observer = FALSE]

NavCleanup(n) == [n EXCEPT !.done = TRUE, !.observer = FALSE, !.timer = FALSE]

\* tryLoad(), the call of autoLoadElements aside: the closure after it.
NavTryLoadOffByOne(n) ==
    IF n.done THEN n
    ELSE LET m == [n EXCEPT !.attempt = @ + 1, !.calls = @ + 1]
         IN  IF m.attempt > NAV_MAX_RETRIES THEN NavCleanup(m)
             ELSE [m EXCEPT !.timer = TRUE]

NavTryLoad(n) ==
    IF n.done THEN n
    ELSE LET m == [n EXCEPT !.attempt = @ + 1, !.calls = @ + 1]
         IN  IF m.attempt >= NAV_MAX_RETRIES THEN NavCleanup(m)
             ELSE [m EXCEPT !.timer = TRUE]

\* retryAutoLoadOnNavigation(): the new closure, observer connected, first
\* timer armed.
NewNav == [IdleNav EXCEPT !.active = TRUE, !.observer = TRUE, !.timer = TRUE]

\* querySelectorAll('[data-albert-element]').forEach(el => el.remove())
PurgedNodes(nd) == [t \in Tags |-> IF t = NoMarker THEN nd[t] ELSE 0]

\* handleUrlChange() that starts a new closure and leaves the old one alone.
HandleUrlChangeNoCancel ==
    /\ href # lastKnownUrl
    /\ lastKnownUrl' = href
    /\ IF nav.active /\ nav.debounce
         THEN /\ Len(oldNavs) < MaxOldNavs
              /\ oldNavs' = Append(oldNavs, nav)
         ELSE oldNavs' = oldNavs
    /\ styleNodes' = [id \in ElementIds |-> 0]
    /\ nodes' = PurgedNodes(nodes)
    /\ cycles' = NotifyCycles(cycles, nodes' # nodes)
    /\ nav' = NewNav
    /\ UNCHANGED <<ops, call, chat, conversations, elements, href, links, targetPresent,
                   execQueue, passes, bootPending>>

\* handleUrlChange(), from the 500 ms poll, popstate or hashchange.
HandleUrlChange ==
    /\ href # lastKnownUrl
    /\ lastKnownUrl' = href
    /\ LET old == NavCleanup(nav)
       IN  IF nav.active /\ old.debounce
             THEN /\ Len(oldNavs) < MaxOldNavs
                  /\ oldNavs' = Append(oldNavs, old)
             ELSE oldNavs' = oldNavs
    /\ styleNodes' = [id \in ElementIds |-> 0]
    /\ nodes' = PurgedNodes(nodes)
    /\ cycles' = NotifyCycles(cycles, nodes' # nodes)
    /\ nav' = NewNav
    /\ UNCHANGED <<ops, call, chat, conversations, elements, href, links, targetPresent, execQueue, passes, bootPending>>

\* The backoff timer of the current closure fires: tryLoad().
NavTimerFire ==
    /\ nav.timer
    /\ LET n0 == [nav EXCEPT !.timer = FALSE]
           n1 == NavTryLoad(n0)
       IN  /\ n1.calls > n0.calls => CanStartPass
           /\ nav' = n1
           /\ passes' = IF n1.calls > n0.calls THEN StartPass(passes) ELSE passes
    /\ UNCHANGED <<ops, call, chat, conversations, elements, href, links, lastKnownUrl, styleNodes, nodes, targetPresent,
                   execQueue, cycles, oldNavs, bootPending>>

\* The debounce timer of the current closure's observer fires.
NavDebounceFire ==
    /\ nav.debounce
    /\ LET n0 == [nav EXCEPT !.debounce = FALSE]
           n1 == IF n0.done THEN n0 ELSE NavTryLoad([n0 EXCEPT !.timer = FALSE])
       IN  /\ n1.calls > n0.calls => CanStartPass
           /\ nav' = n1
           /\ passes' = IF n1.calls > n0.calls THEN StartPass(passes) ELSE passes
    /\ UNCHANGED <<ops, call, chat, conversations, elements, href, links, lastKnownUrl, styleNodes, nodes, targetPresent,
                   execQueue, cycles, oldNavs, bootPending>>

\* The debounce timer of a cancelled closure fires.
OldNavDebounceFire(i) ==
    /\ i \in 1..Len(oldNavs)
    /\ LET n0 == [oldNavs[i] EXCEPT !.debounce = FALSE]
           n1 == IF n0.done THEN n0 ELSE NavTryLoad([n0 EXCEPT !.timer = FALSE])
       IN  /\ n1.calls > n0.calls => CanStartPass
           /\ passes' = IF n1.calls > n0.calls THEN StartPass(passes) ELSE passes
           /\ oldNavs' = IF n1.done /\ ~n1.timer
                           THEN SubSeq(oldNavs, 1, i - 1) \o SubSeq(oldNavs, i + 1, Len(oldNavs))
                           ELSE [oldNavs EXCEPT ![i] = n1]
    /\ UNCHANGED <<ops, call, chat, conversations, elements, href, links, lastKnownUrl, styleNodes, nodes, targetPresent,
                   execQueue, cycles, nav, bootPending>>

----------------------------------------------------------------------------
(* storage.js: addElement, removeElement, toggleElement                    *)

StoredIds == { elements[i].id : i \in 1..Len(elements) }

\* addElement(element), for an element handleChat built: a generated id,
\* the normalized tab URL, enabled, and code of which one half is not empty.
AddElement(id, u, js, css) ==
    /\ id \notin StoredIds
    /\ js # EmptyText \/ css # EmptyText
    /\ elements' = Append(elements, [id |-> id, url |-> NormalizeUrl(u),
                                     enabled |-> TRUE, js |-> js, css |-> css])
    /\ UNCHANGED <<ops, call, chat, conversations, href, links, lastKnownUrl, styleNodes, nodes, targetPresent,
                   execQueue, cycles, nav, oldNavs, passes, bootPending>>

\* removeElement(id)
RemoveElement(id) ==
    /\ elements' = SelectSeq(elements, LAMBDA el : el.id # id)
    /\ UNCHANGED <<ops, call, chat, conversations, href, links, lastKnownUrl, styleNodes, nodes, targetPresent,
                   execQueue, cycles, nav, oldNavs, passes, bootPending>>

\* toggleElement(id, enabled): the first element with the id, if any.
ToggleElement(id, enabled) ==
    /\ id \in StoredIds
    /\ LET k == CHOOSE i \in 1..Len(elements) :
                    elements[i].id = id /\ \A j \in 1..(i - 1) : elements[j].id # id
       IN  elements' = [elements EXCEPT ![k].enabled = enabled]
    /\ UNCHANGED <<ops, call, chat, conversations, href, links, lastKnownUrl, styleNodes, nodes, targetPresent,
                   execQueue, cycles, nav, oldNavs, passes, bootPending>>

----------------------------------------------------------------------------
(* storage.js: the conversation log                                        *)

\* conversations[key] || []
EmptyConversations == [u \in { NormalizeUrl(h) : h \in Hrefs } |-> << >>]

\* A message of the log.  The fields hasElement and isElementUpdate are
\* those of an assistant message; a user message reads FALSE for both.
Message(role, content, hasElement, isElementUpdate) ==
    [role |-> role, content |-> content, hasElement |-> hasElement,
     isElementUpdate |-> isElementUpdate]

\* addToConversation without the limit: the log keeps every message.
AddToConversationUnbounded(convs, u, msg) ==
    [convs EXCEPT ![NormalizeUrl(u)] = Append(@, msg)]

\* addToConversation(url, message), applied to the map it read.
AddToConversation(convs, u, msg) ==
    LET key == NormalizeUrl(u)
        history == Append(convs[key], msg)
    IN  [convs EXCEPT ![key] =
            IF Len(history) > CONVERSATION_LIMIT
              THEN SubSeq(history, Len(history) - CONVERSATION_LIMIT + 1, Len(history))
              ELSE history]

\* updateElement(id, { code }), applied to the list it read: the list to
\* write, or the list unchanged when no element has the id.
UpdateElementIn(els, id, js, css) ==
    LET idx == { i \in 1..Len(els) : els[i].id = id }
    IN  IF idx = {} THEN els
        ELSE LET k == CHOOSE i \in idx : \A j \in idx : i <= j
             IN  [els EXCEPT ![k].js = js, ![k].css = css]

----------------------------------------------------------------------------
(* Service worker: handleChat                                              *)

\* String.prototype.trim(): the text without its leading and trailing
\* whitespace.
Trim(text) ==
    LET idx == { i \in 1..Len(text) : text[i] # Ws }
    IN  IF idx = {} THEN EmptyText
        ELSE SubSeq(text, CHOOSE i \in idx : \A j \in idx : i <= j,
                          CHOOSE i \in idx : \A j \in idx : i >= j)

\* The first operand, with no fallback.
OrFirst(a, b) == a

\* a || b on strings: the empty string is falsy.
Or(a, b) == IF a # EmptyText THEN a ELSE b

\* The text appended to the message of a false update.
Caveat == "No actual code changes were detected"

\* What the model can answer, with the raw text it is: text that is not JSON
\* ("none"), a JSON value that is not an object, as a quoted string or a
\* number ("literal"), or a JSON object with any of an inspect list (of so
\* many selectors), a message and an element (elementId "" when the field is
\* absent).
ChatJsTexts ==
    { EmptyText, <<Ws>> \o JsText(NoProgram) \o <<Ws>>,
      JsText([NoProgram EXCEPT !.guarded = FALSE]) }
ChatCssTexts ==
    { EmptyText, <<"c", Ws, "d">>, <<"c", Ws, Ws, "d">> }
LlmResponses ==
    { [json |-> "none", raw |-> <<"text">>, inspect |-> 0, message |-> << >>,
       element |-> << >>],
      [json |-> "literal", raw |-> <<"quoted">>, inspect |-> 0, message |-> << >>,
       element |-> << >>] }
      \cup [json : {"object"}, raw : { <<"object">> }, inspect : {0, 1, MaxSelectors},
            message : { << >>, <<"m">> },
            element : { << >> } \cup
                      { <<e>> : e \in [elementId : {"", "e1"}, js : ChatJsTexts,
                                       css : ChatCssTexts] }]

\* parseLLMResponse(responseText), and the fallback of handleChat when it
\* throws: the raw text is the message.  JSON.parse throws on text that is
\* not JSON; a JSON value that is not an object has no message field.
ParseLLMResponse(resp) ==
    IF resp.json = "none" THEN [message |-> resp.raw, element |-> << >>]
    ELSE [message |-> resp.message,
          element |-> IF resp.element # << >> /\ (resp.element[1].js # EmptyText
                                                   \/ resp.element[1].css # EmptyText)
                        THEN resp.element ELSE << >>]

\* The answer handleChat falls back to when the loop ends without one.
UnableResponse ==
    [json |-> "object", raw |-> <<"object">>, inspect |-> 0, message |-> <<"unable">>,
     element |-> << >>]

\* The loop follows an inspect request in every round: no cap.
WantsInspectAnyRound(round, resp) == resp.json = "object" /\ resp.inspect > 0

\* round < MAX_INSPECT_ROUNDS and the answer parses to a non-empty inspect list
WantsInspect(round, resp) ==
    round < MAX_INSPECT_ROUNDS /\ resp.json = "object" /\ resp.inspect > 0

\* The comparison without trim().
CodeChangedExact(new, old) == new # old

\* newJs.trim() !== oldJs.trim()
CodeChanged(new, old) == Trim(new) # Trim(old)

\* The first element of the list, whatever its id.
FindElementAny(els, id) == IF els = << >> THEN << >> ELSE << els[1] >>

\* existingElements.find(el => el.id === existingId), as a list of at most one
FindElement(els, id) ==
    LET found == SelectSeq(els, LAMBDA el : el.id = id)
    IN  IF found = << >> THEN << >> ELSE << found[1] >>

\* What step 9 of handleChat does with the parsed answer.
PlanOf(parsed, existing) ==
    IF parsed.element = << >> THEN "none"
    ELSE LET el == parsed.element[1]
             found == FindElement(existing, el.elementId)
         IN  IF found = << >> THEN "create"
             ELSE IF \/ CodeChanged(Or(el.js, found[1].js), found[1].js)
                     \/ CodeChanged(Or(el.css, found[1].css), found[1].css)
                    THEN "update"
                    ELSE "noop"

NoParsed == [message |-> << >>, element |-> << >>]
NoResult == [error |-> "", message |-> << >>, hasElement |-> FALSE,
             isElementUpdate |-> FALSE]

\* No turn in progress.
IdleChat ==
    [pc |-> "idle", tabUrl |-> Url("/a", "", ""), existing |-> << >>,
     round |-> 0, calls |-> 0, frags |-> 0, fetched |-> 0, fragErrors |-> 0,
     lastInspect |-> 0, lastJson |-> "object", raw |-> << >>, parsed |-> NoParsed,
     plan |-> "none", isUpdate |-> FALSE, element |-> << >>,
     convBuf |-> EmptyConversations, elemBuf |-> << >>, sent |-> << >>,
     result |-> NoResult]

\* generateId(): an id no element has.
FreshIds(c) ==
    ElementIds \ (StoredIds \cup { c.existing[k].id : k \in 1..Len(c.existing) })
\* generateId() that returns the id of the first element ever stored.
GenerateIdReused(c) == "e1"

GenerateId(c) == CHOOSE id \in FreshIds(c) : TRUE

\* return { error }
Fail(c, error) == [c EXCEPT !.pc = "done", !.result = [NoResult EXCEPT !.error = error]]

\* return { error } of steps 1 and 2, with a model call made first.
FailEarlyAfterCall(c, error) == Fail([c EXCEPT !.calls = @ + 1], error)

\* return { error } of steps 1 and 2: nothing was called, nothing was saved.
FailEarly(c, error) == Fail(c, error)

\* A failed fragment request ends the turn with an error.
FoldFragmentOrAbort(c, outcome) ==
    IF outcome = "fragment"
      THEN [c EXCEPT !.frags = @ - 1, !.fetched = @ + 1]
      ELSE [Fail(c, "fragment") EXCEPT !.frags = 0]

\* The body of the selector loop: the answer, or the text of the error, is
\* appended to fragmentsContext.
FoldFragment(c, outcome) ==
    [c EXCEPT !.frags = @ - 1, !.fetched = @ + 1,
              !.fragErrors = IF outcome = "fragment" THEN @ ELSE @ + 1]

\* Steps 8 and 9 up to the first await: parse the final answer and decide.
Apply(c, resp) ==
    LET parsed == ParseLLMResponse(resp)
        plan == PlanOf(parsed, c.existing)
    IN  [c EXCEPT !.parsed = parsed,
                  !.plan = plan,
                  !.lastInspect = resp.inspect,
                  !.lastJson = resp.json,
                  !.raw = resp.raw,
                  !.fetched = 0,
                  !.fragErrors = 0,
                  !.isUpdate = (plan = "update"),
                  !.element =
                      IF plan = "create"
                        THEN << StoredElement(GenerateId(c), NormalizeUrl(c.tabUrl), TRUE,
                                              parsed.element[1].js, parsed.element[1].css) >>
                        ELSE << >>,
                  !.pc = CASE plan = "none" -> "saveAssistant"
                           [] plan = "noop" -> "saveAssistant"
                           [] plan = "update" -> "remove"
                           [] plan = "create" -> "addRead"]

\* The message the turn saves and returns.
FinalMessage(c) ==
    IF c.plan = "noop" THEN Append(c.parsed.message, Caveat)
    ELSE Or(c.parsed.message, <<"Done!">>)

pageVars == <<href, links, lastKnownUrl, styleNodes, nodes, targetPresent, execQueue,
              cycles, nav, oldNavs, passes, bootPending>>

\* CHAT_MESSAGE arrives for the tab: handleChat starts and reads the settings.
ChatStart ==
    /\ chat.pc = "idle"
    /\ chat' = [IdleChat EXCEPT !.pc = "settings", !.tabUrl = href]
    /\ UNCHANGED <<ops, call, elements, conversations, pageVars>>

\* Step 1: no API key is an error; else GET_PAGE_CONTEXT is sent.
ChatSettings(hasKey) ==
    /\ chat.pc = "settings"
    /\ chat' = IF hasKey THEN [chat EXCEPT !.pc = "context"] ELSE FailEarly(chat, "no key")
    /\ UNCHANGED <<ops, call, elements, conversations, pageVars>>

\* Step 2: the page context arrives, or is empty, or the tab has no content
\* script to answer.
ChatContext(outcome) ==
    /\ chat.pc = "context"
    /\ chat' = CASE outcome = "ok" -> [chat EXCEPT !.pc = "history"]
                 [] outcome = "empty" -> FailEarly(chat, "empty")
                 [] outcome = "unreachable" -> [chat EXCEPT !.pc = "reinject"]
    /\ UNCHANGED <<ops, call, elements, conversations, pageVars>>

\* Step 2, retry: content.js is injected into the tab, where it starts as on
\* a page load, and GET_PAGE_CONTEXT is sent again; or the injection fails.
ChatReinject(injected, outcome) ==
    /\ chat.pc = "reinject"
    /\ chat' = IF injected /\ outcome = "ok" THEN [chat EXCEPT !.pc = "history"]
               ELSE IF injected /\ outcome = "empty" THEN FailEarly(chat, "empty")
               ELSE FailEarly(chat, "unreachable")
    /\ IF injected
         THEN /\ lastKnownUrl' = href
              /\ bootPending' = TRUE
              /\ UNCHANGED <<href, links, styleNodes, nodes, targetPresent, execQueue,
                             cycles, nav, oldNavs, passes>>
         ELSE UNCHANGED pageVars
    /\ UNCHANGED <<ops, call, elements, conversations>>

\* Step 3: getConversation resolves; step 4 starts with the read of the log.
ChatHistory ==
    /\ chat.pc = "history"
    /\ chat' = [chat EXCEPT !.pc = "saveUser"]
    /\ UNCHANGED <<ops, call, elements, conversations, pageVars>>

\* Step 4, addToConversation: the read of the log.
ChatSaveUserRead ==
    /\ chat.pc = "saveUser"
    /\ chat' = [chat EXCEPT !.pc = "saveUserWrite", !.convBuf = conversations]
    /\ UNCHANGED <<ops, call, elements, conversations, pageVars>>

\* Step 4, addToConversation: the write of the log with the prompt appended.
ChatSaveUserWrite ==
    /\ chat.pc = "saveUserWrite"
    /\ conversations' = AddToConversation(chat.convBuf, chat.tabUrl,
                                          Message("user", <<"prompt">>, FALSE, FALSE))
    /\ chat' = [chat EXCEPT !.pc = "existing", !.convBuf = EmptyConversations]
    /\ UNCHANGED <<ops, call, elements, pageVars>>

\* Step 5: getElementsForUrl(tabUrl); steps 6 and 7: the first model call.
ChatExisting ==
    /\ chat.pc = "existing"
    /\ chat' = [chat EXCEPT !.pc = "llm", !.existing = MatchingElements(elements, chat.tabUrl)]
    /\ UNCHANGED <<ops, call, elements, conversations, pageVars>>

\* Step 7: a model call fails, and the failure is saved as an assistant
\* message of the log.
ChatLlmErrorLogged ==
    /\ chat.pc = "llm"
    /\ chat' = Fail([chat EXCEPT !.calls = @ + 1], "LLM API error")
    /\ conversations' = AddToConversation(conversations, chat.tabUrl,
                                          Message("assistant", <<"error">>, FALSE, FALSE))
    /\ UNCHANGED <<ops, call, elements, pageVars>>

\* Step 7: callLLM throws (fetch rejects, the status is not 2xx, or the
\* answer has no content); the catch around the loop returns the error.
ChatLlmError ==
    /\ chat.pc = "llm"
    /\ chat' = Fail([chat EXCEPT !.calls = @ + 1], "LLM API error")
    /\ UNCHANGED <<ops, call, elements, conversations, pageVars>>

\* Step 7: a model call returns.  An inspect request the loop follows sends
\* the first GET_DOM_FRAGMENT; any other answer is final: steps 8 and 9 run
\* up to their first await.
ChatLlmReturn(resp) ==
    /\ chat.pc = "llm"
    /\ chat.round <= MAX_INSPECT_ROUNDS
    /\ LET c == [chat EXCEPT !.calls = @ + 1]
       IN  IF WantsInspect(chat.round, resp)
             THEN chat' = [c EXCEPT !.pc = "fragment", !.frags = resp.inspect,
                                    !.fetched = 0, !.fragErrors = 0]
             ELSE /\ PlanOf(ParseLLMResponse(resp), chat.existing) = "create"
                       => FreshIds(chat) # {}
                  /\ chat' = Apply(c, resp)
    /\ UNCHANGED <<ops, call, elements, conversations, pageVars>>

\* Step 7: one GET_DOM_FRAGMENT answer arrives: a fragment, an error value
\* of getDomFragment, or no answer from the tab; its text is added to the
\* context for the next model call.  After the last one the round ends and the
\* loop calls the model again, or ends without an answer.
ChatFragment(outcome) ==
    /\ chat.pc = "fragment"
    /\ LET c == FoldFragment(chat, outcome)
       IN  chat' = IF c.frags > 0 THEN c
                   ELSE IF chat.round + 1 <= MAX_INSPECT_ROUNDS
                          THEN [c EXCEPT !.round = @ + 1, !.pc = "llm"]
                          ELSE Apply([c EXCEPT !.round = @ + 1], UnableResponse)
    /\ UNCHANGED <<ops, call, elements, conversations, pageVars>>

\* Step 9, update: REMOVE_ELEMENT is sent to the tab; the content script
\* removes the element's nodes, or cannot be reached.
ChatRemove(ok) ==
    /\ chat.pc = "remove"
    /\ LET id == chat.parsed.element[1].elementId
           d == IF ok THEN RemoveElementDom(Dom(styleNodes, nodes, execQueue), id)
                ELSE Dom(styleNodes, nodes, execQueue)
       IN  /\ styleNodes' = d.style
           /\ nodes' = d.nodes
           /\ cycles' = NotifyCycles(cycles, d.nodes # nodes)
           /\ nav' = NotifyNav(nav, d.nodes # nodes)
    /\ chat' = [chat EXCEPT !.pc = "updateRead", !.sent = Append(@, "REMOVE_ELEMENT")]
    /\ UNCHANGED <<ops, call, elements, conversations, href, links, lastKnownUrl, targetPresent,
                   execQueue, oldNavs, passes, bootPending>>

\* Step 9, updateElement: the read of the list.
ChatUpdateRead ==
    /\ chat.pc = "updateRead"
    /\ chat' = [chat EXCEPT !.pc = "updateWrite", !.elemBuf = elements]
    /\ UNCHANGED <<ops, call, elements, conversations, pageVars>>

\* Step 9, updateElement: the write of the list with the resolved code, or
\* null and no write when the element is not in the list read.
ChatUpdateWrite ==
    /\ chat.pc = "updateWrite"
    /\ LET el == chat.parsed.element[1]
           old == FindElement(chat.existing, el.elementId)[1]
           written == UpdateElementIn(chat.elemBuf, old.id, Or(el.js, old.js),
                                      Or(el.css, old.css))
           hit == FindElement(chat.elemBuf, old.id) # << >>
       IN  /\ elements' = IF hit THEN written ELSE elements
           /\ chat' = [chat EXCEPT !.pc = "reload", !.elemBuf = << >>,
                          !.element = IF hit THEN FindElement(written, old.id) ELSE << >>]
    /\ UNCHANGED <<ops, call, conversations, pageVars>>

\* Step 9, addElement: the read of the list.
ChatAddRead ==
    /\ chat.pc = "addRead"
    /\ chat' = [chat EXCEPT !.pc = "addWrite", !.elemBuf = elements]
    /\ UNCHANGED <<ops, call, elements, conversations, pageVars>>

\* Step 9, addElement: the write of the list with the new element appended.
ChatAddWrite ==
    /\ chat.pc = "addWrite"
    /\ elements' = Append(chat.elemBuf, chat.element[1])
    /\ chat' = [chat EXCEPT !.pc = "reload", !.elemBuf = << >>]
    /\ UNCHANGED <<ops, call, conversations, pageVars>>

\* Step 9: the tab is reloaded and the element is injected in place as well.
ChatReloadThenInject(ok) ==
    /\ chat.pc = "reload"
    /\ IF ok THEN /\ PageLoadEffect(href)
                  /\ chat' = [chat EXCEPT !.pc = "inject", !.sent = Append(@, "reload")]
                  /\ UNCHANGED links
             ELSE /\ chat' = [chat EXCEPT !.pc = "inject"]
                  /\ UNCHANGED pageVars
    /\ UNCHANGED <<ops, call, elements, conversations>>

\* Step 9: chrome.tabs.reload(tabId) reloads the page, or fails.
ChatReload(ok) ==
    /\ chat.pc = "reload"
    /\ IF ok THEN /\ PageLoadEffect(href)
                  /\ chat' = [chat EXCEPT !.pc = "saveAssistant", !.sent = Append(@, "reload")]
                  /\ UNCHANGED links
             ELSE /\ chat' = [chat EXCEPT !.pc = "inject"]
                  /\ UNCHANGED pageVars
    /\ UNCHANGED <<ops, call, elements, conversations>>

\* Step 9, fallback: INJECT_ELEMENT { cssOnly: true } is sent; with no
\* element (updateElement returned null) or no content script this throws.
ChatInject(ok) ==
    /\ chat.pc = "inject"
    /\ IF ok /\ chat.element # << >>
         THEN LET d == InjectElementDom(Dom(styleNodes, nodes, execQueue),
                                        chat.element[1], TRUE)
              IN  /\ styleNodes' = d.style
                  /\ nodes' = d.nodes
                  /\ cycles' = NotifyCycles(cycles, d.nodes # nodes)
                  /\ nav' = NotifyNav(nav, d.nodes # nodes)
                  /\ chat' = [chat EXCEPT !.sent = Append(@, "INJECT_ELEMENT"),
                                 !.pc = IF chat.element[1].js # EmptyText
                                          THEN "execute" ELSE "saveAssistant"]
         ELSE /\ chat' = [chat EXCEPT !.pc = "saveAssistant"]
              /\ UNCHANGED <<styleNodes, nodes, cycles, nav>>
    /\ UNCHANGED <<ops, call, elements, conversations, href, links, lastKnownUrl, targetPresent,
                   execQueue, oldNavs, passes, bootPending>>

\* Step 9, fallback: executeElementJS(tabId, element.code.js, element.id).
ChatExecute ==
    /\ chat.pc = "execute"
    /\ ExecuteElementJS(chat.element[1].id, chat.element[1].js)
    /\ chat' = [chat EXCEPT !.pc = "saveAssistant", !.sent = Append(@, "executeScript")]
    /\ UNCHANGED <<ops, call, elements, conversations, href, links, lastKnownUrl, styleNodes,
                   targetPresent, execQueue, oldNavs, passes, bootPending>>

\* Step 10 (and the false update), addToConversation: the read of the log.
ChatSaveAssistantRead ==
    /\ chat.pc = "saveAssistant"
    /\ chat' = [chat EXCEPT !.pc = "saveAssistantWrite", !.convBuf = conversations]
    /\ UNCHANGED <<ops, call, elements, conversations, pageVars>>

\* Step 10 (and the false update), addToConversation: the write of the log;
\* step 11: the turn returns.
ChatSaveAssistantWrite ==
    /\ chat.pc = "saveAssistantWrite"
    /\ LET hasElement == chat.parsed.element # << >> /\ chat.plan # "noop"
       IN  /\ conversations' =
                 AddToConversation(chat.convBuf, chat.tabUrl,
                                   Message("assistant", FinalMessage(chat), hasElement,
                                           chat.isUpdate))
           /\ chat' = [chat EXCEPT !.pc = "done", !.convBuf = EmptyConversations,
                          !.result = [error |-> "", message |-> FinalMessage(chat),
                                      hasElement |-> hasElement,
                                      isElementUpdate |-> chat.isUpdate]]
    /\ UNCHANGED <<ops, call, elements, pageVars>>

----------------------------------------------------------------------------
(* The script-execution engine on one page, for one stored element         *)

InitExec ==
    /\ \E js \in [marker : {"e1", "widget", NoMarker}, onMiss : {"throw", "quiet"},
                  guarded : BOOLEAN], css \in CssTexts :
          elements = << StoredElement("e1", Url("/a", "", ""), TRUE, JsText(js), css) >>
    /\ href = Url("/a", "", "")
    /\ links = {}
    /\ lastKnownUrl = Url("/a", "", "")
    /\ styleNodes = [id \in ElementIds |-> 0]
    /\ nodes = [t \in Tags |-> 0]
    /\ targetPresent \in BOOLEAN
    /\ execQueue = << >>
    /\ cycles = [c \in 1..2 |-> IdleCycle]
    /\ nav = IdleNav
    /\ oldNavs = << >>
    /\ passes = << >>
    /\ bootPending = FALSE
    /\ conversations = EmptyConversations
    /\ chat = IdleChat
    /\ ops = NoOps
    /\ call = NoCall

NextExec ==
    \/ \E i \in 1..Len(elements), cssOnly \in BOOLEAN : InjectElementMsg(elements[i], cssOnly)
    \/ \E i \in 1..Len(elements) : RemoveElementMsg(elements[i].id)
    \/ \E i \in 1..MaxQueue : StartCycle(i)
    \/ \E c \in Cycles : TimerFire(c)
    \/ \E c \in Cycles : DebounceFire(c)
    \/ HostMutation

SpecExec == InitExec /\ [][NextExec]_vars

\* A timer that is set fires unless it is cleared first: the backoff timer of
\* a closure stays set until it fires or a debounce callback clears it.  A
\* debounce timer is set anew by every mutation, so a page that keeps
\* changing can hold it back for ever: no fairness for DebounceFire.
\* The scripts test for their node before they create it, so the number of
\* nodes in the page is bounded by the scripts and a timer that is set can
\* always fire.
InitExecFair == InitExec /\ \A k \in 1..Len(elements) : Prog(elements[k].js).guarded

SpecExecFair == InitExecFair /\ [][NextExec]_vars /\ \A c \in 1..2 : WF_vars(TimerFire(c))

----------------------------------------------------------------------------
(* The element store and the auto-load pass of a page load                 *)

ProgramWidget == [marker |-> "widget", onMiss |-> "throw", guarded |-> FALSE]
ProgramQuiet == [marker |-> "e1", onMiss |-> "quiet", guarded |-> TRUE]

InitStore ==
    /\ elements = << >>
    /\ href \in Hrefs
    /\ links = {}
    /\ lastKnownUrl = href
    /\ styleNodes = [id \in ElementIds |-> 0]
    /\ nodes = [t \in Tags |-> 0]
    /\ targetPresent = FALSE
    /\ execQueue = << >>
    /\ cycles = << >>
    /\ nav = IdleNav
    /\ oldNavs = << >>
    /\ passes = << >>
    /\ bootPending = TRUE
    /\ conversations = EmptyConversations
    /\ chat = IdleChat
    /\ ops = NoOps
    /\ call = NoCall

NextStore ==
    \/ \E id \in ElementIds, u \in Hrefs, js \in {EmptyText, JsText(ProgramWidget)},
          css \in CssTexts : AddElement(id, u, js, css)
    \/ \E id \in ElementIds : RemoveElement(id)
    \/ \E id \in ElementIds, en \in BOOLEAN : ToggleElement(id, en)
    \/ \E id \in ElementIds : RemoveElementMsg(id)
    \/ \E u \in Hrefs : PageLoad(u)
    \/ Boot
    \/ \E i \in 1..MaxPasses : PassResume(i)

SpecStore == InitStore /\ [][NextStore]_vars

----------------------------------------------------------------------------
(* In-page navigation on a page with one stored element                    *)

\* Either an SPA that moves freely between its URLs, with an element that
\* is a style sheet only; or a page that moves in place once, to /b, with an
\* element that has a script, run in one closure at a time.
InitNav ==
    /\ \/ /\ elements = << StoredElement("e1", Url("/a", "", ""), TRUE, EmptyText, <<"c">>) >>
          /\ links = { Url("/a", "", ""), Url("/a", "", "#h") }
          /\ cycles = << >>
       \/ /\ \E js \in {ProgramWidget, ProgramQuiet} :
                elements = << StoredElement("e1", Url("/a", "", ""), TRUE, JsText(js), <<"c">>) >>
          /\ links = { Url("/b", "", "") }
          /\ cycles = [c \in 1..1 |-> IdleCycle]
    /\ href = Url("/a", "", "")
    /\ lastKnownUrl = href
    /\ styleNodes = [id \in ElementIds |-> 0]
    /\ nodes = [t \in Tags |-> 0]
    /\ targetPresent = FALSE
    /\ execQueue = << >>
    /\ nav = IdleNav
    /\ oldNavs = << >>
    /\ passes = << >>
    /\ bootPending = TRUE
    /\ conversations = EmptyConversations
    /\ chat = IdleChat
    /\ ops = NoOps
    /\ call = NoCall

NextNav ==
    \/ Boot
    \/ \E i \in 1..MaxPasses : PassResume(i)
    \/ \E u \in Hrefs : PushState(u)
    \/ HandleUrlChange
    \/ NavTimerFire
    \/ NavDebounceFire
    \/ \E i \in 1..MaxOldNavs : OldNavDebounceFire(i)
    \/ \E i \in 1..MaxQueue : StartCycle(i)
    \/ \E c \in Cycles : TimerFire(c)
    \/ \E c \in Cycles : DebounceFire(c)
    \/ HostMutation

SpecNav == InitNav /\ [][NextNav]_vars

----------------------------------------------------------------------------
(* One chat turn on a page that has loaded; the user may delete elements   *)
(* at the panel meanwhile                                                  *)

\* The page is at /a#h; the store is empty or holds e1 for /a.  The scripts
\* here spell the program that needs nothing of the host page.
InitChat ==
    /\ \/ elements = << >>
       \/ \E js \in {EmptyText, JsText(NoProgram)}, css \in {EmptyText, <<"c", Ws, "d">>} :
             /\ js # EmptyText \/ css # EmptyText
             /\ elements = << StoredElement("e1", Url("/a", "", ""), TRUE, js, css) >>
    /\ href = Url("/a", "", "#h")
    /\ links = {}
    /\ lastKnownUrl = href
    /\ styleNodes = [id \in ElementIds |-> 0]
    /\ nodes = [t \in Tags |-> 0]
    /\ targetPresent = TRUE
    /\ execQueue = << >>
    /\ cycles = [c \in 1..1 |-> IdleCycle]
    /\ nav = IdleNav
    /\ oldNavs = << >>
    /\ passes = << >>
    /\ bootPending = TRUE
    /\ conversations = EmptyConversations
    /\ chat = IdleChat
    /\ ops = NoOps
    /\ call = NoCall

NextChat ==
    \/ ChatStart
    \/ \E hasKey \in BOOLEAN : ChatSettings(hasKey)
    \/ \E outcome \in {"ok", "empty", "unreachable"} : ChatContext(outcome)
    \/ \E injected \in BOOLEAN, outcome \in {"ok", "empty", "unreachable"} :
          ChatReinject(injected, outcome)
    \/ ChatHistory
    \/ ChatSaveUserRead
    \/ ChatSaveUserWrite
    \/ ChatExisting
    \/ ChatLlmError
    \/ \E resp \in LlmResponses : ChatLlmReturn(resp)
    \/ \E outcome \in {"fragment", "error", "unreachable"} : ChatFragment(outcome)
    \/ \E ok \in BOOLEAN : ChatRemove(ok)
    \/ ChatUpdateRead
    \/ ChatUpdateWrite
    \/ ChatAddRead
    \/ ChatAddWrite
    \/ \E ok \in BOOLEAN : ChatReload(ok)
    \/ \E ok \in BOOLEAN : ChatInject(ok)
    \/ ChatExecute
    \/ ChatSaveAssistantRead
    \/ ChatSaveAssistantWrite
    \/ Boot
    \/ \E i \in 1..MaxPasses : PassResume(i)
    \/ \E i \in 1..MaxQueue : StartCycle(i)
    \/ \E id \in ElementIds : RemoveElement(id)

SpecChat == InitChat /\ [][NextChat]_vars

----------------------------------------------------------------------------
(* Claims about the script-execution engine (SpecExec)                     *)

\* C2 (as claimed): however the timers and mutation callbacks of two
\* successive inject calls for one element interleave, the page holds at
\* most one style node tagged with the id and at most one node of each kind
\* produced by the element's script.
C2_OneSetOfNodes ==
    /\ \A id \in ElementIds : styleNodes[id] <= 1
    /\ \A t \in Tags : nodes[t] <= 1

\* C3 (as claimed): a REMOVE_ELEMENT for an element leaves neither its style
\* node nor any node its script tagged, and an inject starts from that state
\* (after it the page holds at most the one style node it added and none of
\* the script's earlier nodes).
C3_RemoveDeletesEveryOwnedNode ==
    [][\A i \in 1..Len(elements) :
         LET el == elements[i]
             m == IF el.js = EmptyText THEN NoMarker ELSE Prog(el.js).marker
         IN  /\ RemoveElementMsg(el.id) =>
                   /\ styleNodes'[el.id] = 0
                   /\ m # NoMarker => nodes'[m] = 0
             /\ (\E cssOnly \in BOOLEAN : InjectElementMsg(el, cssOnly)) =>
                   /\ styleNodes'[el.id] <= 1
                   /\ m # NoMarker => nodes'[m] = 0]_vars

\* C4 (as claimed): one retry cycle runs the element code at most
\* MAX_RETRIES = 10 times, the immediate first attempt included.
C4_AtMostMaxRetriesRuns == \A c \in Cycles : cycles[c].runs <= MAX_RETRIES

\* C4 (amended): one retry cycle runs the element code at most
\* MAX_RETRIES + 1 = 11 times: the immediate first attempt and at most 10
\* retries, timer-triggered and mutation-triggered together.
C4_AtMostFirstPlusMaxRetriesRuns ==
    \A c \in Cycles :
        /\ cycles[c].runs <= MAX_RETRIES + 1
        /\ cycles[c].used => cycles[c].runs <= cycles[c].attempt + 1

C4_Witness ==
    \E c \in Cycles : cycles[c].runs = MAX_RETRIES + 1 /\ cycles[c].outcome = "exhausted"

\* C6: a run of the element code is a success exactly when it does not throw
\* and, if the code text carries a marker value, a node with that
\* data-albert-element value is in the page after the run; every failed run
\* (throwing, or quiet without the marker) leaves a retry timer pending
\* unless the retries are used up.
C6_SuccessIffNoThrowAndMarkerFound ==
    [][\A c \in Cycles :
         cycles'[c].runs = cycles[c].runs + 1 =>
           LET code == cycles'[c].code
               threw == code.onMiss = "throw" /\ ~targetPresent
               found == code.marker = NoMarker \/ nodes'[code.marker] > 0
           IN  /\ (cycles'[c].outcome = "success") <=> (~threw /\ found)
               /\ cycles'[c].outcome = "success" => cycles'[c].settled
               /\ ~(~threw /\ found) =>
                     \/ cycles'[c].timer /\ ~cycles'[c].settled
                        /\ cycles'[c].attempt <= MAX_RETRIES
                     \/ cycles'[c].outcome = "exhausted"
                        /\ cycles'[c].attempt = MAX_RETRIES + 1]_vars

\* A quiet run that did not produce its marker has failed and waits to retry.
C6_Witness ==
    \E c \in Cycles :
        /\ cycles[c].used /\ ~cycles[c].settled /\ cycles[c].timer
        /\ cycles[c].code.onMiss = "quiet" /\ cycles[c].code.marker # NoMarker
        /\ cycles[c].runs >= 2

----------------------------------------------------------------------------
(* Claims about the store and the auto-load pass (SpecStore)               *)

\* The elements a page shows as injected: a style node, or a script handed
\* to the service worker.
InjectedIds ==
    { id \in ElementIds : styleNodes[id] > 0 }
      \cup { execQueue[k].id : k \in 1..Len(execQueue) }

\* C1: after any creates, toggles and deletes, the auto-load pass of a page
\* load at URL v injects exactly the stored elements whose normalized url is
\* the normalized v and that are enabled.
C1_AutoLoadInjectsEnabledMatches ==
    [][\A i \in 1..Len(passes) :
         PassResume(i) =>
           InjectedIds' =
             { elements[k].id : k \in
                 { j \in 1..Len(elements) :
                     /\ elements[j].url.path = passes[i].path
                     /\ elements[j].url.search = passes[i].search
                     /\ elements[j].enabled } }]_vars

\* A page at a URL with a fragment shows e1, while e2, stored for the same
\* normalized URL, is disabled and not shown.
C1_Witness ==
    /\ href.hash # ""
    /\ passes = << >> /\ ~bootPending
    /\ InjectedIds = {"e1"}
    /\ \E j \in 1..Len(elements) :
          /\ elements[j].id = "e2" /\ ~elements[j].enabled
          /\ NormalizeUrl(elements[j].url) = NormalizeUrl(href)

----------------------------------------------------------------------------
(* Claims about in-page navigation (SpecNav)                               *)

\* C5: a retry cycle that has ended (a script cycle by success or by
\* exhaustion, a navigation cycle by cancellation or by exhaustion) has no
\* backoff timer pending and no observer connected, and never runs its
\* attempt again: a settled script closure never runs the code again, also
\* when its debounce timer fires afterwards, and a done navigation closure
\* never calls autoLoadElements again.
C5_EndedCycleNeverActs ==
    /\ [](\A c \in Cycles : cycles[c].settled => ~cycles[c].timer /\ ~cycles[c].observer)
    /\ [](nav.done => ~nav.timer /\ ~nav.observer)
    /\ [](\A i \in 1..Len(oldNavs) :
             oldNavs[i].done /\ ~oldNavs[i].timer /\ ~oldNavs[i].observer)
    /\ [][\A c \in Cycles :
            cycles[c].settled =>
              \/ cycles'[c].settled /\ cycles'[c].runs = cycles[c].runs
              \/ Dead(cycles[c]) /\ Len(execQueue') = Len(execQueue) - 1]_vars
    /\ [][nav.done =>
            \/ nav'.done /\ nav'.calls = nav.calls
                 /\ (nav.debounce /\ ~nav'.debounce => passes' = passes)
            \/ lastKnownUrl' # lastKnownUrl]_vars
    /\ [][\A i \in 1..Len(oldNavs) : OldNavDebounceFire(i) => passes' = passes]_vars

\* Both kinds of cycle have ended with a debounce timer still pending.
C5_Witness ==
    /\ nav.done /\ nav.debounce
    /\ \E c \in Cycles : cycles[c].settled /\ cycles[c].debounce

\* C7 (as claimed): once handleUrlChange has seen the new URL, no script
\* closure started for an element of the outgoing URL runs its code again.
C7_NoStaleScriptRun ==
    [][\A c \in Cycles :
         (cycles[c].used /\ cycles'[c].runs = cycles[c].runs + 1) =>
            \A k \in 1..Len(elements) :
               elements[k].id = cycles[c].id =>
                  NormalizeUrl(elements[k].url) = NormalizeUrl(lastKnownUrl)]_vars

\* C8: handleUrlChange leaves no node tagged data-albert-id or
\* data-albert-element and a new navigation cycle that has made no
\* autoLoadElements call yet; a navigation cycle makes at most
\* NAV_MAX_RETRIES = 8 calls, timer-triggered and mutation-triggered together.
C8_PurgeThenAtMostEightLoads ==
    /\ [](nav.calls <= NAV_MAX_RETRIES)
    /\ [](\A i \in 1..Len(oldNavs) : oldNavs[i].calls <= NAV_MAX_RETRIES)
    /\ [][lastKnownUrl' # lastKnownUrl =>
            /\ \A id \in ElementIds : styleNodes'[id] = 0
            /\ \A t \in Tags \ {NoMarker} : nodes'[t] = 0
            /\ nav'.active /\ nav'.calls = 0 /\ ~nav'.done
            /\ passes' = passes]_vars

\* A navigation cycle has used up its eight calls.
C8_Witness ==
    /\ lastKnownUrl # Url("/a", "", "")
    /\ nav.done /\ nav.calls = NAV_MAX_RETRIES

----------------------------------------------------------------------------
(* Claims about the chat turn (SpecChat)                                   *)

\* The final answer of the turn is handled in this step, and it carries an
\* element that names one of the elements the turn read for the page.
UpdateAnswered ==
    /\ chat.pc = "llm"
    /\ chat'.pc \in {"saveAssistant", "remove", "addRead"}
    /\ chat'.parsed.element # << >>
    /\ FindElement(chat.existing, chat'.parsed.element[1].elementId) # << >>

\* A no-op turn touches neither the element list nor the page, and returns
\* the message with the caveat and no element.
NoOpTurnIsQuiet ==
    /\ [][(chat.plan = "noop" /\ chat' # chat) =>
            /\ elements' = elements
            /\ UNCHANGED pageVars
            /\ chat'.sent = << >>]_vars
    /\ [](chat.pc = "done" /\ chat.plan = "noop" =>
            /\ chat.result.error = ""
            /\ ~chat.result.hasElement
            /\ ~chat.result.isElementUpdate
            /\ \E k \in 1..Len(chat.result.message) : chat.result.message[k] = Caveat)

\* C9 (amended): if the js and css an update answer resolves to equal the
\* js and css of the element as the turn read it, after trimming leading and
\* trailing whitespace, the turn is a no-op: it never writes the element
\* list, sends no REMOVE_ELEMENT, no reload, no INJECT_ELEMENT and runs no
\* script, and it returns hasElement = FALSE with the caveat in the message.
C9_TrimmedIdenticalUpdateIsNoOp ==
    /\ [][UpdateAnswered =>
            LET el == chat'.parsed.element[1]
                old == FindElement(chat.existing, el.elementId)[1]
            IN  (/\ Trim(Or(el.js, old.js)) = Trim(old.js)
                 /\ Trim(Or(el.css, old.css)) = Trim(old.css))
                  => chat'.plan = "noop"]_vars
    /\ NoOpTurnIsQuiet

\* The text with its leading and trailing whitespace removed and every run
\* of whitespace inside it reduced to one character.
RECURSIVE Squeeze(_)
Squeeze(text) ==
    IF Len(text) < 2 THEN text
    ELSE IF text[1] = Ws /\ text[2] = Ws THEN Squeeze(Tail(text))
    ELSE <<text[1]>> \o Squeeze(Tail(text))

\* C9 (as claimed): if the js and css an update answer resolves to are
\* identical to the element's code modulo whitespace, the turn is a no-op.
C9_WhitespaceIdenticalUpdateIsNoOp ==
    [][UpdateAnswered =>
         LET el == chat'.parsed.element[1]
             old == FindElement(chat.existing, el.elementId)[1]
         IN  (/\ Squeeze(Trim(Or(el.js, old.js))) = Squeeze(Trim(old.js))
              /\ Squeeze(Trim(Or(el.css, old.css))) = Squeeze(Trim(old.css)))
               => chat'.plan = "noop"]_vars

\* A turn has ended as a no-op on an answer whose js is the stored js with
\* whitespace around it.
C9_Witness ==
    /\ chat.pc = "done" /\ chat.plan = "noop"
    /\ LET el == chat.parsed.element[1]
           old == FindElement(chat.existing, el.elementId)[1]
       IN  el.js # EmptyText /\ el.js # old.js
    /\ LET log == conversations[NormalizeUrl(chat.tabUrl)]
       IN  log # << >> /\ log[Len(log)].content = chat.result.message

\* C10: one turn performs at most MAX_INSPECT_ROUNDS = 3 inspection rounds
\* and calls the model at most 4 times, and the answer to the call that
\* follows the third inspection round is final whatever it holds: no
\* fragment is fetched and no further call is made.
C10_AtMostThreeInspectRounds ==
    /\ [](chat.round <= MAX_INSPECT_ROUNDS /\ chat.calls <= MAX_INSPECT_ROUNDS + 1)
    /\ [][(chat.pc = "llm" /\ chat.round = MAX_INSPECT_ROUNDS /\ chat'.calls = chat.calls + 1)
            => chat'.pc \notin {"llm", "fragment"}]_vars

\* A turn has ended on its fourth answer, which held an inspect list.
C10_Witness ==
    /\ chat.pc = "done" /\ chat.result.error = ""
    /\ chat.round = MAX_INSPECT_ROUNDS
    /\ chat.calls = MAX_INSPECT_ROUNDS + 1
    /\ chat.lastInspect > 0

\* C11 (as claimed): in an inspection round at most INSPECT_SELECTOR_LIMIT = 5
\* GET_DOM_FRAGMENT requests are sent, however long the inspect list is.
C11_AtMostFiveSelectorsPerRound == chat.fetched <= INSPECT_SELECTOR_LIMIT

\* C12 (as claimed): a turn whose final answer is not a JSON object returns
\* the raw text as its message, with no error and hasElement = FALSE, and
\* writes no element and changes nothing on the page.
C12_UnparsableTextIsTheMessage ==
    /\ [](chat.pc = "done" /\ chat.result.error = "" /\ chat.lastJson # "object" =>
            /\ chat.result.message = chat.raw
            /\ ~chat.result.hasElement)
    /\ [][(chat.raw # << >> /\ chat.lastJson # "object" /\ chat' # chat) =>
            /\ elements' = elements
            /\ UNCHANGED pageVars]_vars

\* C13: a turn changes a stored element only through an update whose answer
\* names that element's id: the list it writes differs from the list it read
\* only at elements with that id; an answer with code that names no id is a
\* create, and a create writes the list it read with one element appended,
\* whose id no element of that list has.
C13_UpdateOnlyTheNamedElement ==
    [][/\ (elements' # elements /\ chat' # chat) =>
            \/ /\ chat.pc = "updateWrite"
               /\ chat.parsed.element[1].elementId # ""
               /\ Len(elements') = Len(chat.elemBuf)
               /\ \A k \in 1..Len(elements') :
                    elements'[k] # chat.elemBuf[k] =>
                       /\ chat.elemBuf[k].id = chat.parsed.element[1].elementId
                       /\ elements'[k].id = chat.elemBuf[k].id
            \/ /\ chat.pc = "addWrite"
               /\ Len(elements') = Len(chat.elemBuf) + 1
               /\ SubSeq(elements', 1, Len(chat.elemBuf)) = chat.elemBuf
               /\ \A k \in 1..Len(chat.elemBuf) :
                    chat.elemBuf[k].id # elements'[Len(elements')].id
       /\ (chat.pc = "llm" /\ chat'.pc \in {"saveAssistant", "remove", "addRead"}
             /\ chat'.parsed.element # << >>
             /\ chat'.parsed.element[1].elementId = "") => chat'.plan = "create"]_vars

\* A turn has created e2 next to the stored e1.
C13_Witness ==
    /\ chat.pc = "done" /\ chat.plan = "create"
    /\ Len(elements) = 2
    /\ elements[1].id = "e1" /\ elements[2].id = "e2"

\* C17: a fragment request never ends the turn, whatever its outcome: its
\* text is added to the context, the selectors left in the round are still
\* fetched, and after the last one the model is called again.
C17_FragmentErrorsAreFolded ==
    [][(chat.pc = "fragment" /\ chat' # chat) =>
          /\ chat'.result = NoResult
          /\ chat'.fetched = chat.fetched + 1
          /\ chat'.frags = chat.frags - 1
          /\ chat'.fragErrors \in {chat.fragErrors, chat.fragErrors + 1}
          /\ chat'.calls = chat.calls
          /\ IF chat.frags > 1 THEN chat'.pc = "fragment" /\ chat'.round = chat.round
             ELSE chat'.pc = "llm" /\ chat'.round = chat.round + 1]_vars

\* A round has ended after failed and answered requests; the next model call
\* is under way.
C17_Witness ==
    /\ chat.pc = "llm" /\ chat.round >= 1
    /\ chat.fragErrors >= 1
    /\ chat.fetched > chat.fragErrors

\* C20: a turn that ends in the error of step 1 or of step 2 has called the
\* model no time and leaves the conversation log and the element list as they
\* were.
C20_EarlyErrorTouchesNothing ==
    /\ [](chat.pc = "done" /\ chat.result.error \in {"no key", "empty", "unreachable"} =>
            /\ chat.calls = 0
            /\ conversations = EmptyConversations)
    /\ [][(chat.pc \in {"settings", "context", "reinject"} /\ chat' # chat) =>
            /\ elements' = elements
            /\ conversations' = conversations
            /\ chat'.calls = 0]_vars

\* A turn has ended because the tab could not be reached.
C20_Witness ==
    /\ chat.pc = "done" /\ chat.result.error = "unreachable"
    /\ chat.calls = 0

-----------------------------------------------------------------------------
(* storage.js: the calls on the element list, interleaved                  *)

\* generateId() returning an id it has given out before.
GenerateIdAgain(issued) == CHOOSE id \in ElementIds : TRUE

\* generateId(): 'albert-' + Date.now() + '-' + six random characters.  The
\* clock and the random part make the id differ from every id given out
\* before (a collision of the random part within one millisecond is left out).
GenerateIdAfter(issued) == CHOOSE id \in ElementIds \ issued : TRUE

\* The list a call writes, from the list it read.
OpResult(op) ==
    CASE op.kind = "add"    -> Append(op.snap, op.element)
      [] op.kind = "remove" -> SelectSeq(op.snap, LAMBDA el : el.id # op.id)
      [] op.kind = "update" -> UpdateElementIn(op.snap, op.id, op.element.js, op.element.css)
      [] op.kind = "toggle" ->
            [k \in 1..Len(op.snap) |->
                IF op.snap[k].id = op.id
                     /\ \A j \in 1..(k - 1) : op.snap[j].id # op.id
                  THEN [op.snap[k] EXCEPT !.enabled = op.element.enabled]
                  ELSE op.snap[k]]

\* updateElement returns null, and toggleElement skips the write, when the
\* list read holds no element of the id.
OpWrites(op) ==
    op.kind \in {"update", "toggle"} => \E k \in 1..Len(op.snap) : op.snap[k].id = op.id

OpRecord(kind, id, el, snap) == [kind |-> kind, id |-> id, element |-> el, snap |-> snap]

OpsUnchanged ==
    UNCHANGED <<call, chat, conversations, href, links, lastKnownUrl, styleNodes, nodes,
                targetPresent, execQueue, cycles, nav, oldNavs, passes, bootPending>>

\* handleChat, create branch: the element gets generateId() and addElement
\* reads the list.
CallAddElement(css) ==
    /\ Cardinality(ops.pending) < MaxOps
    /\ ops.issued # ElementIds
    /\ LET id == GenerateIdAfter(ops.issued)
           el == StoredElement(id, Url("/a", "", ""), TRUE, EmptyText, css)
       IN  ops' = [issued |-> ops.issued \cup {id},
                   pending |-> ops.pending \cup {OpRecord("add", id, el, elements)}]
    /\ UNCHANGED elements
    /\ OpsUnchanged

\* handleChat, update branch, and handleElementCodeChat: updateElement reads
\* the list.  The id is one of an element that was stored at some time.
CallUpdateElement(id, css) ==
    /\ Cardinality(ops.pending) < MaxOps
    /\ id \in ops.issued
    /\ ops' = [ops EXCEPT !.pending =
                  @ \cup {OpRecord("update", id,
                                   StoredElement(id, Url("/a", "", ""), TRUE, EmptyText, css),
                                   elements)}]
    /\ UNCHANGED elements
    /\ OpsUnchanged

\* Elements view: the switch of a card; toggleElement reads the list.
CallToggleElement(id, enabled) ==
    /\ Cardinality(ops.pending) < MaxOps
    /\ id \in ops.issued
    /\ ops' = [ops EXCEPT !.pending =
                  @ \cup {OpRecord("toggle", id,
                                   StoredElement(id, Url("/a", "", ""), enabled, EmptyText,
                                                 EmptyText),
                                   elements)}]
    /\ UNCHANGED elements
    /\ OpsUnchanged

\* Elements view: the delete button of a card; removeElement reads the list.
CallRemoveElement(id) ==
    /\ Cardinality(ops.pending) < MaxOps
    /\ id \in ops.issued
    /\ ops' = [ops EXCEPT !.pending =
                  @ \cup {OpRecord("remove", id,
                                   StoredElement(id, Url("/a", "", ""), TRUE, EmptyText,
                                                 EmptyText),
                                   elements)}]
    /\ UNCHANGED elements
    /\ OpsUnchanged

\* chrome.storage.local.set of a call under way: the list it computed from
\* the list it read replaces the stored list.
StorageSet(op) ==
    /\ op \in ops.pending
    /\ ops' = [ops EXCEPT !.pending = @ \ {op}]
    /\ elements' = IF OpWrites(op) THEN OpResult(op) ELSE elements
    /\ OpsUnchanged

InitOps ==
    /\ elements = << >>
    /\ href = Url("/a", "", "")
    /\ links = {}
    /\ lastKnownUrl = href
    /\ styleNodes = [id \in ElementIds |-> 0]
    /\ nodes = [t \in Tags |-> 0]
    /\ targetPresent = FALSE
    /\ execQueue = << >>
    /\ cycles = << >>
    /\ nav = IdleNav
    /\ oldNavs = 0
    /\ passes = << >>
    /\ bootPending = FALSE
    /\ conversations = EmptyConversations
    /\ chat = IdleChat
    /\ ops = NoOps
    /\ call = NoCall

NextOps ==
    \/ CallAddElement(<<"c">>)
    \/ \E id \in ElementIds : CallUpdateElement(id, <<"c">>)
    \/ \E id \in ElementIds, enabled \in BOOLEAN : CallToggleElement(id, enabled)
    \/ \E id \in ElementIds : CallRemoveElement(id)
    \/ \E op \in ops.pending : StorageSet(op)

SpecOps == InitOps /\ [][NextOps]_vars

\* C14: whatever calls of create, update, scoped code edit, toggle and delete
\* are made, and however their reads and writes interleave, the stored list
\* never holds two elements of one id.
C14_OneElementPerId ==
    \A i, j \in 1..Len(elements) : elements[i].id = elements[j].id => i = j

\* Two elements are stored while two calls that read different lists are
\* under way.
C14_Witness ==
    /\ Len(elements) = 2
    /\ \E a, b \in ops.pending : a.snap # b.snap /\ a.kind # b.kind

-----------------------------------------------------------------------------
(* storage.js: the conversation log, appended to                           *)

\* The number of messages appended so far to each log.
NoAppends == [key \in DOMAIN EmptyConversations |-> 0]

\* addToConversation(url, message), its read and write taken together: the
\* n-th message of a log carries n as its text; user and assistant messages
\* alternate.
AppendMessage(u) ==
    LET key == NormalizeUrl(u)
        n == call[key] + 1
    IN  /\ n <= MaxAppends
        /\ conversations' =
              AddToConversation(conversations, u,
                  Message(IF n % 2 = 1 THEN "user" ELSE "assistant", n, FALSE, FALSE))
        /\ call' = [call EXCEPT ![key] = n]
        /\ UNCHANGED <<ops, chat, elements, href, links, lastKnownUrl, styleNodes, nodes,
                       targetPresent, execQueue, cycles, nav, oldNavs, passes, bootPending>>

LogUrls == { Url("/a", "", ""), Url("/a", "", "#h"), Url("/b", "", "") }

InitLog ==
    /\ elements = << >>
    /\ href = Url("/a", "", "")
    /\ links = {}
    /\ lastKnownUrl = href
    /\ styleNodes = [id \in ElementIds |-> 0]
    /\ nodes = [t \in Tags |-> 0]
    /\ targetPresent = FALSE
    /\ execQueue = << >>
    /\ cycles = << >>
    /\ nav = IdleNav
    /\ oldNavs = 0
    /\ passes = << >>
    /\ bootPending = FALSE
    /\ conversations = EmptyConversations
    /\ chat = IdleChat
    /\ ops = NoOps
    /\ call = NoAppends

NextLog == \E u \in LogUrls : AppendMessage(u)

SpecLog == InitLog /\ [][NextLog]_vars

Min(a, b) == IF a < b THEN a ELSE b

\* C15: after n appends to the log of a URL the log holds the last
\* min(n, CONVERSATION_LIMIT) messages appended, in the order they were
\* appended; an append to a full log drops exactly its oldest message; an
\* append leaves the logs of the other URLs as they were.
C15_LogKeepsLastFifty ==
    /\ [](\A key \in DOMAIN conversations :
            LET log == conversations[key]
                n == call[key]
            IN  /\ Len(log) = Min(n, CONVERSATION_LIMIT)
                /\ \A k \in 1..Len(log) : log[k].content = n - Len(log) + k)
    /\ [][\A key \in DOMAIN conversations :
            IF call'[key] = call[key]
              THEN conversations'[key] = conversations[key]
              ELSE IF Len(conversations[key]) = CONVERSATION_LIMIT
                     THEN /\ Len(conversations'[key]) = CONVERSATION_LIMIT
                          /\ SubSeq(conversations'[key], 1, CONVERSATION_LIMIT - 1)
                               = Tail(conversations[key])
                     ELSE SubSeq(conversations'[key], 1, Len(conversations[key]))
                               = conversations[key]]_vars

\* One log has been appended to beyond the limit, another below it.
C15_Witness ==
    \E a, b \in DOMAIN conversations :
        /\ call[a] > CONVERSATION_LIMIT /\ Len(conversations[a]) = CONVERSATION_LIMIT
        /\ call[b] > 0 /\ call[b] < CONVERSATION_LIMIT

-----------------------------------------------------------------------------
(* Functions studied on their own: every variable but call stays idle      *)

InitIdle ==
    /\ elements = << >>
    /\ href = Url("/a", "", "")
    /\ links = {}
    /\ lastKnownUrl = href
    /\ styleNodes = [id \in ElementIds |-> 0]
    /\ nodes = [t \in Tags |-> 0]
    /\ targetPresent = FALSE
    /\ execQueue = << >>
    /\ cycles = << >>
    /\ nav = IdleNav
    /\ oldNavs = 0
    /\ passes = << >>
    /\ bootPending = FALSE
    /\ conversations = EmptyConversations
    /\ chat = IdleChat
    /\ ops = NoOps

IdleUnchanged ==
    UNCHANGED <<ops, chat, conversations, elements, href, links, lastKnownUrl, styleNodes,
                nodes, targetPresent, execQueue, cycles, nav, oldNavs, passes, bootPending>>

-----------------------------------------------------------------------------
(* Content script: getDomFragment                                          *)

\* A character of a subtree simplifyNode removes (script, style, svg,
\* noscript, iframe, [data-albert-id], [hidden], [aria-hidden="true"]).
Hidden == "#"

\* The text of the comment appended to a cut fragment.
TruncatedMarker == "<!-- ... truncated ... -->"

\* The characters outerHTML can hold.
HtmlChars == {"x", Ws, Hidden}

\* simplifyNode(clone), seen on the serialized text.
SimplifyNode(raw) == SelectSeq(raw, LAMBDA ch : ch # Hidden)

\* html.replace(/\s{2,}/g, ' '): every run of two or more whitespace
\* characters becomes one space.
RECURSIVE CollapseSpaces(_)
CollapseSpaces(text) ==
    IF Len(text) < 2 THEN text
    ELSE IF text[1] = Ws /\ text[2] = Ws THEN CollapseSpaces(Tail(text))
    ELSE <<text[1]>> \o CollapseSpaces(Tail(text))

\* clone.outerHTML after simplifyNode, whitespace collapsed and trimmed.
PrunedHtml(raw) == Trim(CollapseSpaces(SimplifyNode(raw)))

FragmentError(text) ==
    [error |-> text, html |-> EmptyText, totalLength |-> 0, truncated |-> FALSE]

\* getDomFragment with truncated = totalLength >= maxLength.
GetDomFragmentInclusive(selector, raw, maxLength) ==
    IF selector # "match" THEN FragmentError("error")
    ELSE LET html == PrunedHtml(raw)
         IN  [error |-> "", totalLength |-> Len(html),
              truncated |-> Len(html) >= maxLength,
              html |-> IF Len(html) >= maxLength
                         THEN SubSeq(html, 1, maxLength) \o <<TruncatedMarker>> ELSE html]

\* getDomFragment(selector, maxLength).  The selector is given by what
\* document.querySelector does with it: it throws ("invalid"), returns null
\* ("nomatch") or returns an element whose outerHTML is raw ("match").
GetDomFragment(selector, raw, maxLength) ==
    IF selector = "invalid" THEN FragmentError("Error querying")
    ELSE IF selector = "nomatch" THEN FragmentError("No element found matching")
    ELSE LET html == PrunedHtml(raw)
             totalLength == Len(html)
             truncated == totalLength > maxLength
         IN  [error |-> "", totalLength |-> totalLength, truncated |-> truncated,
              html |-> IF truncated
                         THEN SubSeq(html, 1, maxLength) \o <<TruncatedMarker>>
                         ELSE html]

RECURSIVE TextsUpTo(_)
TextsUpTo(n) ==
    IF n = 0 THEN { EmptyText }
    ELSE LET shorter == TextsUpTo(n - 1)
         IN  shorter \cup { Append(t, ch) : t \in shorter, ch \in HtmlChars }

\* The message GET_DOM_FRAGMENT arrives.
InitFragment ==
    /\ InitIdle
    /\ call \in [selector : {"invalid", "nomatch", "match"}, raw : TextsUpTo(MaxHtmlLen),
                 maxLength : 0..(MaxHtmlLen + 1), done : {FALSE},
                 result : {FragmentError("")}]

\* case 'GET_DOM_FRAGMENT': sendResponse(getDomFragment(selector, maxLength))
GetDomFragmentMsg ==
    /\ ~call.done
    /\ call' = [call EXCEPT !.done = TRUE,
                            !.result = GetDomFragment(call.selector, call.raw, call.maxLength)]
    /\ IdleUnchanged

NextFragment == GetDomFragmentMsg

SpecFragment == InitFragment /\ [][NextFragment]_vars

\* C18: for a matched element, totalLength is the length of the pruned HTML
\* before it is cut; truncated holds exactly when totalLength > maxLength;
\* the HTML returned is the first maxLength characters of the pruned HTML
\* followed by the marker when truncated, and the whole pruned HTML when not.
C18_FragmentTruncation ==
    (call.done /\ call.selector = "match") =>
        LET pruned == Trim(CollapseSpaces(SelectSeq(call.raw, LAMBDA ch : ch # Hidden)))
            res == call.result
        IN  /\ res.error = ""
            /\ res.totalLength = Len(pruned)
            /\ res.truncated <=> (res.totalLength > call.maxLength)
            /\ res.truncated =>
                  /\ Len(res.html) = call.maxLength + 1
                  /\ SubSeq(res.html, 1, call.maxLength) = SubSeq(pruned, 1, call.maxLength)
                  /\ res.html[Len(res.html)] = TruncatedMarker
            /\ ~res.truncated => res.html = pruned

\* A fragment whose pruned HTML is exactly maxLength long came back whole,
\* after pruning had shortened the element's HTML.
C18_Witness ==
    /\ call.done /\ call.selector = "match"
    /\ call.result.totalLength = call.maxLength
    /\ call.maxLength > 0
    /\ Len(call.raw) > call.result.totalLength
    /\ ~call.result.truncated

-----------------------------------------------------------------------------
(* Service worker: buildPageContextMessage                                 *)

\* The notice appended to page HTML that was cut.
HtmlTruncatedNotice == "<!-- ... HTML truncated. ... -->"

\* A text of n characters.
TextOfLength(n) == [k \in 1..n |-> "x"]

\* wasTruncated with >= in place of >.
WasTruncatedFromCeiling(html) == Len(html) >= MAX_HTML_LENGTH

\* const wasTruncated = html.length > maxHtmlLength
WasTruncated(html) == Len(html) > MAX_HTML_LENGTH

\* buildPageContextMessage(pageContext): the parts of the text it returns
\* that depend on the HTML and on the outline.
BuildPageContextMessage(pageContext) ==
    LET wasTruncated == WasTruncated(pageContext.html)
    IN  [html |-> IF wasTruncated
                    THEN SubSeq(pageContext.html, 1, MAX_HTML_LENGTH) \o <<HtmlTruncatedNotice>>
                    ELSE pageContext.html,
         truncatedLabel |-> wasTruncated,
         outline |-> IF wasTruncated /\ pageContext.outline # EmptyText
                       THEN pageContext.outline ELSE EmptyText]

\* The lengths of page HTML tried: short pages and pages around the ceiling.
HtmlLengths ==
    1..HtmlWindow \cup (MAX_HTML_LENGTH - HtmlWindow)..(MAX_HTML_LENGTH + HtmlWindow)

\* handleChat has the page context (its html is not empty) and builds the
\* messages.
InitContext ==
    /\ InitIdle
    /\ \E n \in HtmlLengths, outline \in {EmptyText, <<"outline">>} :
          call = [pageContext |-> [html |-> TextOfLength(n), outline |-> outline],
                  done |-> FALSE,
                  result |-> [html |-> EmptyText, truncatedLabel |-> FALSE,
                              outline |-> EmptyText]]

\* buildMessages: the page context message is built.
BuildMessages ==
    /\ ~call.done
    /\ call' = [call EXCEPT !.done = TRUE,
                            !.result = BuildPageContextMessage(call.pageContext)]
    /\ IdleUnchanged

NextContext == BuildMessages

SpecContext == InitContext /\ [][NextContext]_vars

\* C19: the message holds at most MAX_HTML_LENGTH characters of page HTML
\* (and the notice after them); it is labelled truncated exactly when the
\* page HTML was longer than MAX_HTML_LENGTH, and carries the outline exactly
\* when it is labelled truncated and the outline is not empty.
C19_PageHtmlBounded ==
    call.done =>
        LET res == call.result
            given == call.pageContext
            kept == SelectSeq(res.html, LAMBDA ch : ch # HtmlTruncatedNotice)
        IN  /\ Len(kept) <= MAX_HTML_LENGTH
            /\ kept = SubSeq(given.html, 1, Len(kept))
            /\ res.truncatedLabel <=> (Len(given.html) > MAX_HTML_LENGTH)
            /\ (res.html # kept) <=> res.truncatedLabel
            /\ (res.outline # EmptyText) <=>
                   (Len(given.html) > MAX_HTML_LENGTH /\ given.outline # EmptyText)
            /\ res.outline # EmptyText => res.outline = given.outline

\* A page of exactly MAX_HTML_LENGTH characters with an outline went into the
\* message whole, unlabelled and without the outline.
C19_Witness ==
    /\ call.done
    /\ Len(call.pageContext.html) = MAX_HTML_LENGTH
    /\ call.pageContext.outline # EmptyText
    /\ call.result.html = call.pageContext.html
    /\ call.result.outline = EmptyText

-----------------------------------------------------------------------------
(* Content script: buildWorkingSelectors, buildStructuralPath, verify      *)

\* The tags step 1 takes for semantic.
SemanticTags == {"main", "nav", "header", "footer", "aside", "article", "section"}

\* An element: its tag and the attributes the synthesis reads ("" : absent).
\* The ids and classes are ones the stability tests of steps 3 and 5 accept.
DocNodes ==
    [tag : {"main", "div"}, role : {"", "r"}, id : {"", "x"}, testid : {"", "t"},
     class : {"", "box"}, label : {"", "l"}]

\* A document: the element children of body, in document order.
Documents == UNION { [1..n -> DocNodes] : n \in 1..MaxDocNodes }

\* A CSS selector of one of the shapes the synthesis writes.
Selector(kind, tag, value, nth) == [kind |-> kind, tag |-> tag, value |-> value, nth |-> nth]

\* The elements of the document a selector matches (querySelectorAll).
Matches(doc, sel) ==
    { k \in 1..Len(doc) :
        CASE sel.kind = "tag"    -> doc[k].tag = sel.tag
          [] sel.kind = "role"   -> doc[k].role = sel.value
          [] sel.kind = "id"     -> doc[k].id = sel.value
          [] sel.kind = "testid" -> doc[k].testid = sel.value
          [] sel.kind = "class"  -> doc[k].tag = sel.tag /\ doc[k].class = sel.value
          [] sel.kind = "label"  -> doc[k].tag = sel.tag /\ doc[k].label = sel.value
          [] sel.kind = "path"   ->
                /\ doc[k].tag = sel.tag
                /\ sel.nth # 0 =>
                      Cardinality({ j \in 1..k : doc[j].tag = sel.tag }) = sel.nth }

\* document.querySelector(selector): the first match in document order, 0
\* for null.
QuerySelector(doc, sel) ==
    IF Matches(doc, sel) = {} THEN 0
    ELSE CHOOSE k \in Matches(doc, sel) : \A j \in Matches(doc, sel) : k <= j

\* verify(selector, expected)
Verify(doc, sel, n) == QuerySelector(doc, sel) = n

\* buildStructuralPath(target) for a child of body: 'body > tag', with
\* :nth-of-type(idx) when a sibling has the same tag.
BuildStructuralPath(doc, n) ==
    LET siblings == { j \in 1..Len(doc) : doc[j].tag = doc[n].tag }
    IN  IF Cardinality(siblings) = 1 THEN Selector("path", doc[n].tag, "", 0)
        ELSE Selector("path", doc[n].tag, "",
                      Cardinality({ j \in siblings : j <= n }))

\* selectors.push(sel) when the condition of the step holds.
PushIf(cond, sel) == IF cond THEN <<sel>> ELSE << >>

\* buildWorkingSelectors(el)
BuildWorkingSelectors(doc, n) ==
    LET el == doc[n]
        tagSel == Selector("tag", el.tag, "", 0)
        roleSel == Selector("role", "", el.role, 0)
        idSel == Selector("id", "", el.id, 0)
        testidSel == Selector("testid", "", el.testid, 0)
        classSel == Selector("class", el.tag, el.class, 0)
        labelSel == Selector("label", el.tag, el.label, 0)
        path == BuildStructuralPath(doc, n)
    IN  PushIf(el.tag \in SemanticTags /\ Cardinality(Matches(doc, tagSel)) = 1, tagSel)
        \o PushIf(el.role # "" /\ Verify(doc, roleSel, n), roleSel)
        \o PushIf(el.id # "", idSel)
        \o PushIf(el.testid # "", testidSel)
        \o PushIf(el.class # "" /\ Verify(doc, classSel, n), classSel)
        \o PushIf(el.label # "" /\ Verify(doc, labelSel, n), labelSel)
        \o PushIf(Verify(doc, path, n), path)

\* getPageLandmarks has found an element of the document.
InitSelectors ==
    /\ InitIdle
    /\ \E doc \in Documents : \E n \in 1..Len(doc) :
          call = [doc |-> doc, node |-> n, done |-> FALSE, result |-> << >>]

\* const working = buildWorkingSelectors(el)
GetPageLandmarks ==
    /\ ~call.done
    /\ call' = [call EXCEPT !.done = TRUE,
                            !.result = BuildWorkingSelectors(call.doc, call.node)]
    /\ IdleUnchanged

NextSelectors == GetPageLandmarks

SpecSelectors == InitSelectors /\ [][NextSelectors]_vars

\* C16 (as claimed): every selector buildWorkingSelectors returns for an
\* element matches, in the same document, that element and no other.
C16_SelectorsMatchOnlyTheNode ==
    call.done =>
        \A k \in 1..Len(call.result) : Matches(call.doc, call.result[k]) = {call.node}

----------------------------------------------------------------------------
(* A stored script element over several loads of its page                  *)

\* The ids whose retry cycle gave up on a page the tab has since left.
NoneGaveUp == [gaveUp |-> {}]

GaveUpNow == { cycles[c].id : c \in { d \in Cycles : cycles[d].outcome = "exhausted" } }

\* The tab loads a document at u; call remembers the cycles that had given
\* up on the page it leaves.
LoadAfterRetries(u) ==
    /\ PageLoadEffect(u)
    /\ call' = [gaveUp |-> call.gaveUp \cup GaveUpNow]
    /\ UNCHANGED <<ops, chat, conversations, elements, links>>

\* e1 is stored for /a with a script that needs a node of the host page,
\* which is not rendered yet; the tab has just loaded /a.
InitRetry ==
    /\ \E js \in {ProgramWidget, ProgramQuiet} :
          elements = << StoredElement("e1", Url("/a", "", ""), TRUE, JsText(js), <<"c">>) >>
    /\ href = Url("/a", "", "")
    /\ links = {}
    /\ lastKnownUrl = href
    /\ styleNodes = [id \in ElementIds |-> 0]
    /\ nodes = [t \in Tags |-> 0]
    /\ targetPresent = FALSE
    /\ execQueue = << >>
    /\ cycles = [c \in 1..1 |-> IdleCycle]
    /\ nav = IdleNav
    /\ oldNavs = << >>
    /\ passes = << >>
    /\ bootPending = TRUE
    /\ conversations = EmptyConversations
    /\ chat = IdleChat
    /\ ops = NoOps
    /\ call = NoneGaveUp

NextRetry ==
    \/ Boot
    \/ \E i \in 1..MaxPasses : PassResume(i)
    \/ \E i \in 1..MaxQueue : StartCycle(i)
    \/ \E c \in Cycles : TimerFire(c)
    \/ \E c \in Cycles : DebounceFire(c)
    \/ HostMutation
    \/ \E u \in { Url("/a", "", ""), Url("/a", "?q", ""), Url("/b", "", "") } :
          LoadAfterRetries(u)

SpecRetry == InitRetry /\ [][NextRetry]_vars

\* C22: the step in which a retry cycle gives up changes neither the stored
\* list, nor the chat turn, nor the log; while a cycle stands given up its
\* element is stored and enabled; and on every later load of a page of the
\* element's URL the auto-load pass sends its script to be run again.
C22_GivingUpLeavesTheElement ==
    /\ [][(\E c \in Cycles : cycles[c].outcome # "exhausted"
                             /\ cycles'[c].outcome = "exhausted") =>
            /\ elements' = elements
            /\ chat' = chat
            /\ conversations' = conversations]_vars
    /\ [](\A c \in Cycles : cycles[c].outcome = "exhausted" =>
            \E k \in 1..Len(elements) :
                elements[k].id = cycles[c].id /\ elements[k].enabled)
    /\ [][\A i \in 1..Len(passes) :
            (/\ PassResume(i)
             /\ "e1" \in call.gaveUp
             /\ NormalizeUrl(passes[i]) = NormalizeUrl(elements[1].url)) =>
                 \E k \in 1..Len(execQueue') : execQueue'[k].id = "e1"]_vars

\* A cycle of e1 gave up on an earlier page; on the page now loaded the
\* script has been run again.
C22_Witness ==
    /\ "e1" \in call.gaveUp
    /\ \E c \in Cycles : cycles[c].used /\ cycles[c].id = "e1" /\ cycles[c].runs >= 1

----------------------------------------------------------------------------
(* Page helpers: __albertLLM, and the relay of the content script          *)

\* The requestId of the k-th call: 'albert-llm-' + Date.now() + random
\* characters, which differs from call to call.
RequestId(k) == <<"albert-llm", k>>

\* A requestId no call of the page has.
OtherRequestId == <<"albert-llm", 0>>

\* A promise not yet created.
NoRequest ==
    [used |-> FALSE, listener |-> FALSE, timer |-> FALSE, state |-> "pending", settles |-> 0]

\* No call made, no message in flight.
NoBridge == [requests |-> [k \in 1..MaxRequests |-> NoRequest], posted |-> {}, inbox |-> {}]

\* An ALBERT_LLM_RESPONSE message: error is whether its error field is set.
LlmBridgeResponse(id, error) == [requestId |-> id, error |-> error]

\* The test of handler(event), taken without the comparison of requestId.
HandlerMatchesAnyResponse(k, msg) == TRUE

\* event.data.type === 'ALBERT_LLM_RESPONSE' && event.data.requestId === requestId
HandlerMatches(k, msg) == msg.requestId = RequestId(k)

\* handler(event) of the k-th call for a message: a match removes the
\* listener, clears the timer and settles the promise.
Handle(req, k, msg) ==
    IF req.listener /\ HandlerMatches(k, msg)
      THEN [req EXCEPT !.listener = FALSE, !.timer = FALSE, !.settles = @ + 1,
                       !.state = IF req.settles > 0 THEN @
                                 ELSE IF msg.error THEN "rejected" ELSE "resolved"]
      ELSE req

\* window.__albertLLM(prompt, options): the listener is added, the timer is
\* set and ALBERT_LLM_REQUEST is posted.
AlbertLLM(k) ==
    /\ ~call.requests[k].used
    /\ \A j \in 1..(k - 1) : call.requests[j].used
    /\ call' = [call EXCEPT !.requests[k] = [NoRequest EXCEPT !.used = TRUE,
                                                             !.listener = TRUE,
                                                             !.timer = TRUE],
                            !.posted = @ \cup {k}]
    /\ IdleUnchanged

\* The content script's listener has relayed the k-th request to the service
\* worker and posts ALBERT_LLM_RESPONSE with its requestId: a result, or an
\* error (of the service worker, or of sendMessage).
RelayResponse(k, error) ==
    /\ k \in call.posted
    /\ call' = [call EXCEPT !.posted = @ \ {k},
                            !.inbox = @ \cup {LlmBridgeResponse(RequestId(k), error)}]
    /\ IdleUnchanged

\* Some script of the page posts an ALBERT_LLM_RESPONSE of its own: with a
\* requestId no call has, or with that of a call, made or not yet made.
PagePostsResponse(id, error) ==
    /\ LlmBridgeResponse(id, error) \notin call.inbox
    /\ call' = [call EXCEPT !.inbox = @ \cup {LlmBridgeResponse(id, error)}]
    /\ IdleUnchanged

\* A message event is dispatched: every handler still registered sees it.
DeliverMessage(msg) ==
    /\ msg \in call.inbox
    /\ call' = [call EXCEPT !.inbox = @ \ {msg},
                            !.requests = [k \in 1..MaxRequests |-> Handle(@[k], k, msg)]]
    /\ IdleUnchanged

\* The timer of the k-th call fires: the listener is removed and the promise
\* rejected.
BridgeTimeout(k) ==
    /\ call.requests[k].timer
    /\ call' = [call EXCEPT !.requests[k] =
                   [@ EXCEPT !.timer = FALSE, !.listener = FALSE, !.settles = @ + 1,
                             !.state = IF @ = "pending" /\ call.requests[k].settles = 0
                                         THEN "timedout" ELSE @]]
    /\ IdleUnchanged

BridgeIds == { RequestId(k) : k \in 1..MaxRequests } \cup { OtherRequestId }

InitBridge ==
    /\ InitIdle
    /\ call = NoBridge

NextBridge ==
    \/ \E k \in 1..MaxRequests : AlbertLLM(k)
    \/ \E k \in 1..MaxRequests, error \in BOOLEAN : RelayResponse(k, error)
    \/ \E id \in BridgeIds, error \in BOOLEAN : PagePostsResponse(id, error)
    \/ \E msg \in call.inbox : DeliverMessage(msg)
    \/ \E k \in 1..MaxRequests : BridgeTimeout(k)

SpecBridge == InitBridge /\ [][NextBridge]_vars

\* setTimeout fires unless cleared: a timer that stays set fires.
SpecBridgeFair == SpecBridge /\ \A k \in 1..MaxRequests : WF_vars(BridgeTimeout(k))

\* C23: resolve or reject is called on the promise of a call at most once,
\* and once it has been the promise has neither listener nor timer; the
\* promise changes only while pending, and only through its timeout or
\* through a response carrying its own requestId, whose error field decides
\* between rejection and resolution; every promise is settled in the end.
C23_SettledExactlyOnce ==
    /\ [](\A k \in 1..MaxRequests :
            LET req == call.requests[k]
            IN  /\ req.settles <= 1
                /\ req.used => ((req.state = "pending") <=> (req.settles = 0))
                /\ req.used => ((req.state = "pending") <=> req.listener)
                /\ req.listener <=> req.timer)
    /\ [][\A k \in 1..MaxRequests :
            LET req == call.requests[k]
                after == call'.requests[k]
            IN  (req.used /\ after # req) =>
                   /\ req.state = "pending"
                   /\ \/ after.state = "timedout" /\ call'.inbox = call.inbox
                      \/ \E msg \in call.inbox \ call'.inbox :
                            /\ msg.requestId = RequestId(k)
                            /\ after.state = IF msg.error THEN "rejected" ELSE "resolved"]_vars
    /\ \A k \in 1..MaxRequests :
          call.requests[k].used ~> (call.requests[k].settles = 1)

\* One promise was rejected by its timeout while a response with its
\* requestId is in flight; another was resolved by its response.
C23_Witness ==
    \E j, k \in 1..MaxRequests :
        /\ call.requests[j].state = "timedout"
        /\ \E msg \in call.inbox : msg.requestId = RequestId(j)
        /\ call.requests[k].state = "resolved"

----------------------------------------------------------------------------
(* Service worker: the request handleChat sends to the model               *)

\* A message of the request: { role, content }.  A content is a kind and a
\* number: the log entry's position, the number of elements listed, the
\* round of an inspect exchange.
LlmMessage(role, kind, n) == [role |-> role, content |-> <<kind, n>>]
SystemPromptMsg == LlmMessage("system", "instructions", 0)
PageContextMsg == LlmMessage("system", "page", 0)
PromptContent == <<"prompt", 0>>

\* The log of a URL after n messages of earlier turns.
LogOfLength(n) ==
    [k \in 1..n |-> Message(IF k % 2 = 1 THEN "user" ELSE "assistant", <<"log", k>>,
                            FALSE, FALSE)]

\* conversationHistory.slice(-20)
RecentHistory(history) ==
    SubSeq(history, Len(history) - Min(Len(history), HISTORY_LIMIT) + 1, Len(history))

\* buildExistingElementsContext: an entry per element, with its id and its
\* current js and css.
BuildExistingElementsContext(els) ==
    [k \in 1..Len(els) |-> [id |-> els[k].id, js |-> els[k].js, css |-> els[k].css]]

\* buildMessages called with the log as it is after the prompt was saved.
BuildLlmMessagesAfterSave(history, prompt, existing) ==
    LET saved == Append(history, Message("user", prompt, FALSE, FALSE))
        recent == RecentHistory(saved)
    IN  << SystemPromptMsg, PageContextMsg >>
          \o (IF Len(existing) > 0
                THEN << LlmMessage("system", "elements", Len(existing)) >> ELSE << >>)
          \o [k \in 1..Len(recent) |->
                 [role |-> recent[k].role, content |-> recent[k].content]]
          \o << [role |-> "user", content |-> prompt] >>

\* buildMessages (the system prompt and the page context are fixed texts
\* here).
BuildLlmMessages(history, prompt, existing) ==
    LET recent == RecentHistory(history)
    IN  << SystemPromptMsg, PageContextMsg >>
          \o (IF Len(existing) > 0
                THEN << LlmMessage("system", "elements", Len(existing)) >> ELSE << >>)
          \o [k \in 1..Len(recent) |->
                 [role |-> recent[k].role, content |-> recent[k].content]]
          \o << [role |-> "user", content |-> prompt] >>

\* handleChat has the page context; step 3 is next.
IdleRequest ==
    [pc |-> "history", tabUrl |-> Url("/a", "", "#h"), history |-> << >>,
     existing |-> << >>, offered |-> << >>, messages |-> << >>, round |-> 0,
     requests |-> << >>]

\* Step 3: getConversation(tabUrl).
RequestHistory ==
    /\ call.pc = "history"
    /\ call' = [call EXCEPT !.pc = "saveUser",
                            !.history = conversations[NormalizeUrl(call.tabUrl)]]
    /\ IdleUnchanged

\* Step 4: addToConversation(tabUrl, { role: 'user', content: prompt }).
RequestSaveUser ==
    /\ call.pc = "saveUser"
    /\ conversations' = AddToConversation(conversations, call.tabUrl,
                                          Message("user", PromptContent, FALSE, FALSE))
    /\ call' = [call EXCEPT !.pc = "existing"]
    /\ UNCHANGED <<ops, chat, elements, pageVars>>

\* Step 5: getElementsForUrl(tabUrl).
RequestExisting ==
    /\ call.pc = "existing"
    /\ call' = [call EXCEPT !.pc = "build",
                            !.existing = MatchingElements(elements, call.tabUrl)]
    /\ IdleUnchanged

\* Step 6: buildMessages.
RequestBuild ==
    /\ call.pc = "build"
    /\ call' = [call EXCEPT !.pc = "llm",
                            !.offered = BuildExistingElementsContext(call.existing),
                            !.messages = BuildLlmMessages(call.history, PromptContent,
                                                          call.existing)]
    /\ IdleUnchanged

\* Step 7, one round: callLLM(settings, currentMessages); an inspect answer
\* before the last round adds the answer and the fragments and calls again.
RequestCall(outcome) ==
    /\ call.pc = "llm"
    /\ call' = IF outcome = "inspect" /\ call.round < MAX_INSPECT_ROUNDS
                 THEN [call EXCEPT !.requests = Append(@, call.messages),
                                   !.round = @ + 1,
                                   !.messages = @ \o
                                       << LlmMessage("assistant", "inspect", call.round),
                                          LlmMessage("user", "fragments", call.round) >>]
                 ELSE [call EXCEPT !.requests = Append(@, call.messages), !.pc = "done"]
    /\ IdleUnchanged

\* A turn starts on a page with some log and some stored elements.
InitRequest ==
    /\ href = Url("/a", "", "#h")
    /\ links = {}
    /\ lastKnownUrl = href
    /\ styleNodes = [id \in ElementIds |-> 0]
    /\ nodes = [t \in Tags |-> 0]
    /\ targetPresent = FALSE
    /\ execQueue = << >>
    /\ cycles = [c \in 1..1 |-> IdleCycle]
    /\ nav = IdleNav
    /\ oldNavs = << >>
    /\ passes = << >>
    /\ bootPending = FALSE
    /\ chat = IdleChat
    /\ ops = NoOps
    /\ \E n \in 0..MaxHistory :
          conversations = [EmptyConversations EXCEPT ![Url("/a", "", "")] = LogOfLength(n)]
    /\ \E en1, en2 \in BOOLEAN, u2 \in {Url("/a", "", ""), Url("/b", "", "")} :
          elements \in
            { << >>,
              << StoredElement("e1", Url("/a", "", ""), en1, JsText(ProgramWidget), <<"c">>) >>,
              << StoredElement("e1", Url("/a", "", ""), en1, EmptyText, <<"c">>),
                 StoredElement("e2", u2, en2, JsText(ProgramQuiet), EmptyText) >> }
    /\ call = IdleRequest

NextRequest ==
    \/ RequestHistory
    \/ RequestSaveUser
    \/ RequestExisting
    \/ RequestBuild
    \/ \E outcome \in {"inspect", "final"} : RequestCall(outcome)

SpecRequest == InitRequest /\ [][NextRequest]_vars

\* The messages of a request whose content is of a kind.
OfKind(req, kind) == SelectSeq(req, LAMBDA msg : msg.content[1] = kind)

\* C28: every request sent in a turn starts with the instructions, the page
\* context, the elements message if and only if an element is offered, the
\* last HISTORY_LIMIT entries (or all, if fewer) of the log read at step 3
\* in their order, and the prompt; that is the whole request of the first
\* call, and later calls add only inspect exchanges after it.  The prompt is
\* in the request once, while the stored log already ends with it.
C28_RequestOrder ==
    /\ [][call.pc = "history" /\ call'.pc # "history" =>
             call'.history = conversations[NormalizeUrl(call.tabUrl)]]_vars
    /\ [](\A r \in 1..Len(call.requests) :
            LET req == call.requests[r]
                e == IF Len(call.existing) > 0 THEN 1 ELSE 0
                h == Min(Len(call.history), HISTORY_LIMIT)
            IN  /\ Len(req) = 2 + e + h + 1 + 2 * (r - 1)
                /\ req[1] = SystemPromptMsg
                /\ req[2] = PageContextMsg
                /\ e = 1 => req[3].role = "system" /\ req[3].content[1] = "elements"
                /\ Len(OfKind(req, "elements")) = e
                /\ \A k \in 1..h :
                      LET stored == call.history[Len(call.history) - h + k]
                      IN  /\ req[2 + e + k].role = stored.role
                          /\ req[2 + e + k].content = stored.content
                /\ Len(OfKind(req, "log")) = h
                /\ req[2 + e + h + 1] = [role |-> "user", content |-> PromptContent]
                /\ Len(OfKind(req, "prompt")) = 1
                /\ \A k \in (2 + e + h + 2)..Len(req) :
                      req[k].content[1] \in {"inspect", "fragments"}
                /\ LET log == conversations[NormalizeUrl(call.tabUrl)]
                   IN  log # << >> /\ log[Len(log)].content = PromptContent)

\* A turn on a page with more than HISTORY_LIMIT log entries and an offered
\* element has called the model twice.
C28_Witness ==
    /\ Len(call.history) > HISTORY_LIMIT
    /\ Len(call.existing) > 0
    /\ Len(call.requests) >= 2

\* C29 (as claimed): once the request is built, every stored element whose
\* normalized url is the tab's, enabled or not, is offered in it with its id
\* and its current js and css.
C29_EveryElementOfThePageOffered ==
    call.pc \in {"llm", "done"} =>
        \A k \in 1..Len(elements) :
            NormalizeUrl(elements[k].url) = NormalizeUrl(call.tabUrl) =>
                \E j \in 1..Len(call.offered) :
                    call.offered[j] = [id |-> elements[k].id, js |-> elements[k].js,
                                       css |-> elements[k].css]

-----------------------------------------------------------------------------
(* executeElementJS: the retry cycle with its delays                       *)

\* Math.min(BASE_DELAY * Math.pow(2, attempt - 1), MAX_DELAY)
Delay(attempt) == Min(BASE_DELAY * 2 ^ (attempt - 1), MAX_DELAY)

\* No timer is pending.
NoTimer == <<"none", 0>>
At(t) == <<"at", t>>

\* The closure of one executeElementJS call, with the clock of the page in
\* ms since the first attempt.  The code succeeds from run succeedsFrom on
\* (0: never).
NewBackoff(succeedsFrom) ==
    [pc |-> "first", now |-> 0, attempt |-> 0, runs |-> 0, settled |-> FALSE,
     observer |-> FALSE, timer |-> NoTimer, debounce |-> NoTimer, mutations |-> 0,
     succeedsFrom |-> succeedsFrom, outcome |-> "pending", settledAt |-> 0]

\* cleanup()
BackoffCleanup(c, outcome) ==
    [c EXCEPT !.settled = TRUE, !.observer = FALSE, !.timer = NoTimer,
              !.outcome = outcome, !.settledAt = c.now]

\* execute(): the code runs; on success cleanup() is called.
BackoffExecute(c) ==
    LET ran == [c EXCEPT !.runs = @ + 1]
    IN  IF c.succeedsFrom # 0 /\ ran.runs >= c.succeedsFrom
          THEN BackoffCleanup(ran, "success")
          ELSE ran

\* scheduleRetry()
BackoffScheduleRetry(c) ==
    IF c.settled THEN c
    ELSE IF c.attempt + 1 > MAX_RETRIES
           THEN BackoffCleanup([c EXCEPT !.attempt = @ + 1], "exhausted")
           ELSE [c EXCEPT !.attempt = @ + 1,
                          !.timer = At(c.now + Delay(c.attempt + 1))]

\* An attempt of a timer or of the observer: execute() and, if it failed,
\* scheduleRetry().
BackoffAttempt(c) ==
    LET ran == BackoffExecute(c)
    IN  IF ran.settled THEN ran ELSE BackoffScheduleRetry(ran)

\* The first attempt; if it fails the observer is connected and the first
\* retry is scheduled.
BackoffFirst ==
    /\ call.pc = "first"
    /\ LET ran == BackoffExecute([call EXCEPT !.pc = "running"])
       IN  call' = IF ran.settled THEN ran
                   ELSE BackoffScheduleRetry([ran EXCEPT !.observer = TRUE])
    /\ IdleUnchanged

\* The next thing due is the timer (ties go either way).
TimerDue(c) ==
    /\ c.timer # NoTimer
    /\ c.debounce # NoTimer => c.timer[2] <= c.debounce[2]

\* The next thing due is the debounce of the observer.
DebounceDue(c) ==
    /\ c.debounce # NoTimer
    /\ c.timer # NoTimer => c.debounce[2] <= c.timer[2]

\* The backoff timer fires.
BackoffTimerFire ==
    /\ call.pc = "running"
    /\ TimerDue(call)
    /\ LET c == [call EXCEPT !.now = call.timer[2], !.timer = NoTimer]
       IN  call' = IF c.settled THEN c ELSE BackoffAttempt(c)
    /\ IdleUnchanged

\* The host page changes its DOM: the observer restarts its debounce.
BackoffMutation ==
    /\ call.pc = "running"
    /\ call.observer /\ ~call.settled
    /\ call.mutations < MaxMutations
    /\ call' = [call EXCEPT !.mutations = @ + 1,
                            !.debounce = At(call.now + MUTATION_DEBOUNCE)]
    /\ IdleUnchanged

\* The debounce of the observer fires: the pending timer is cancelled and
\* an attempt is made now.
BackoffDebounceFire ==
    /\ call.pc = "running"
    /\ DebounceDue(call)
    /\ LET c == [call EXCEPT !.now = call.debounce[2], !.debounce = NoTimer]
       IN  call' = IF c.settled THEN c
                   ELSE BackoffAttempt([c EXCEPT !.timer = NoTimer])
    /\ IdleUnchanged

InitBackoff ==
    /\ InitIdle
    /\ \E succeedsFrom \in 0..(MAX_RETRIES + 2) : call = NewBackoff(succeedsFrom)

NextBackoff ==
    \/ BackoffFirst
    \/ BackoffTimerFire
    \/ BackoffMutation
    \/ BackoffDebounceFire

SpecBackoff == InitBackoff /\ [][NextBackoff]_vars

\* C32 (as claimed): a cycle whose code fails on every attempt, on a page
\* that never changes, gives up at most 10000 ms after its first attempt.
C32_GivesUpWithinTenSeconds ==
    (call.outcome = "exhausted" /\ call.mutations = 0 /\ call.succeedsFrom = 0) =>
        call.settledAt <= 10000

-----------------------------------------------------------------------------
(* The timers of a retry cycle, one by one                                 *)

\* A closure of executeElementJS ("exec") or of retryAutoLoadOnNavigation
\* ("nav").  Every setTimeout returns a new id; pending holds the ids of the
\* backoff timers that are set and have neither fired nor been cleared,
\* debounces those of the observer's debounce timers.  Id 0 is no timer.
NewClosure(kind) ==
    [kind |-> kind, pc |-> "start", attempt |-> 0, runs |-> 0, settled |-> FALSE,
     observer |-> FALSE, timeoutId |-> 0, debounceId |-> 0, nextId |-> 1,
     pending |-> {}, debounces |-> {}, mutations |-> 0]

\* timeoutId = setTimeout(...)
SetBackoffTimer(c) ==
    [c EXCEPT !.timeoutId = c.nextId, !.pending = @ \cup {c.nextId}, !.nextId = @ + 1]

\* The observer's callback leaves the backoff timer alone.
KeepPendingTimer(c) == c

\* if (timeoutId) clearTimeout(timeoutId)
ClearPendingTimer(c) == [c EXCEPT !.pending = @ \ {c.timeoutId}]

\* cleanup(): the observer is disconnected, the backoff timer cleared.
ClosureCleanup(c) ==
    [c EXCEPT !.settled = TRUE, !.observer = FALSE, !.pending = @ \ {c.timeoutId},
              !.timeoutId = 0]

\* exec: if (execute()) return; scheduleRetry().  nav: tryLoad().
ClosureAttempt(c, ok) ==
    IF c.settled THEN c
    ELSE IF c.kind = "exec"
      THEN LET ran == [c EXCEPT !.runs = @ + 1]
           IN  IF ok THEN ClosureCleanup(ran)
               ELSE IF ran.attempt + 1 > MAX_RETRIES
                      THEN ClosureCleanup([ran EXCEPT !.attempt = @ + 1])
                      ELSE SetBackoffTimer([ran EXCEPT !.attempt = @ + 1])
      ELSE LET ran == [c EXCEPT !.attempt = @ + 1, !.runs = @ + 1]
           IN  IF ran.attempt >= NAV_MAX_RETRIES THEN ClosureCleanup(ran)
               ELSE SetBackoffTimer(ran)

\* The closure starts.  exec: the first attempt, then the observer and the
\* first timer.  nav: the observer, then the first timer.
ClosureStart(ok) ==
    /\ call.pc = "start"
    /\ call.kind = "nav" => ~ok
    /\ LET c == [call EXCEPT !.pc = "running"]
       IN  call' = IF c.kind = "exec"
                     THEN IF ok THEN ClosureCleanup([c EXCEPT !.runs = 1])
                          ELSE SetBackoffTimer([c EXCEPT !.runs = 1, !.observer = TRUE,
                                                         !.attempt = 1])
                     ELSE SetBackoffTimer([c EXCEPT !.observer = TRUE])
    /\ IdleUnchanged

\* A backoff timer fires.
ClosureTimerFire(id, ok) ==
    /\ id \in call.pending
    /\ call.kind = "nav" => ~ok
    /\ call' = ClosureAttempt([call EXCEPT !.pending = @ \ {id}], ok)
    /\ IdleUnchanged

\* The DOM changes and the observer's callback runs: the debounce timer is
\* cleared and set again.
ClosureMutation ==
    /\ call.observer
    /\ call.mutations < MaxMutations
    /\ call' = IF call.settled THEN [call EXCEPT !.mutations = @ + 1]
               ELSE [call EXCEPT !.mutations = @ + 1,
                                 !.debounces = (@ \ {call.debounceId}) \cup {call.nextId},
                                 !.debounceId = call.nextId,
                                 !.nextId = @ + 1]
    /\ IdleUnchanged

\* A debounce timer fires: the pending backoff timer is cleared and an
\* attempt is made.
ClosureDebounceFire(id, ok) ==
    /\ id \in call.debounces
    /\ call.kind = "nav" => ~ok
    /\ LET c == [call EXCEPT !.debounces = @ \ {id}]
       IN  call' = IF c.settled THEN c ELSE ClosureAttempt(ClearPendingTimer(c), ok)
    /\ IdleUnchanged

\* handleUrlChange cancels the navigation closure.
ClosureCancel ==
    /\ call.kind = "nav"
    /\ call.pc = "running"
    /\ ~call.settled
    /\ call' = ClosureCleanup(call)
    /\ IdleUnchanged

InitTimers ==
    /\ InitIdle
    /\ \E kind \in {"exec", "nav"} : call = NewClosure(kind)

NextTimers ==
    \/ \E ok \in BOOLEAN : ClosureStart(ok)
    \/ \E id \in 1..(MAX_RETRIES + MaxMutations + 1), ok \in BOOLEAN : ClosureTimerFire(id, ok)
    \/ ClosureMutation
    \/ \E id \in 1..(MAX_RETRIES + MaxMutations + 1), ok \in BOOLEAN :
          ClosureDebounceFire(id, ok)
    \/ ClosureCancel

SpecTimers == InitTimers /\ [][NextTimers]_vars

\* C34: a closure has at most one backoff timer pending, the one timeoutId
\* names; no step sets more than one; and the attempt of a debounce timer
\* leaves none of the timers that were pending before it.
C34_OneBackoffTimer ==
    /\ [](Cardinality(call.pending) <= 1)
    /\ [](call.pending \subseteq {call.timeoutId})
    /\ [](call.settled => call.pending = {})
    /\ [][Cardinality(call'.pending \ call.pending) <= 1]_vars
    /\ [][\A id \in call.debounces :
            (ClosureDebounceFire(id, TRUE) \/ ClosureDebounceFire(id, FALSE)) =>
                call'.pending \cap call.pending = {}]_vars

\* A debounce timer has fired while a backoff timer was pending, and the
\* closure has a new backoff timer.
C34_Witness ==
    /\ call.mutations >= 1
    /\ call.debounces = {}
    /\ call.pending = {call.nextId - 1}
    /\ call.timeoutId > call.debounceId
    /\ call.debounceId > 1

-----------------------------------------------------------------------------
(* One chat turn on a page whose stored element is not offered to the     *)
(* model: it is disabled, or stored for another URL, or the store is empty *)

\* The answers of the model in such a turn: text, or an element that may
\* name e1.
NamingResponses ==
    { r \in LlmResponses : r.inspect = 0 /\ (r.json = "object" => r.message = <<"m">>) }

InitCreate ==
    /\ \/ elements = << >>
       \/ \E u \in {Url("/a", "", ""), Url("/b", "", "")}, en \in BOOLEAN :
             /\ (u = Url("/a", "", "") => ~en)
             /\ elements = << StoredElement("e1", u, en, JsText(NoProgram), <<"c", Ws, "d">>) >>
    /\ href = Url("/a", "", "#h")
    /\ links = {}
    /\ lastKnownUrl = href
    /\ styleNodes = [id \in ElementIds |-> 0]
    /\ nodes = [t \in Tags |-> 0]
    /\ targetPresent = TRUE
    /\ execQueue = << >>
    /\ cycles = [c \in 1..1 |-> IdleCycle]
    /\ nav = IdleNav
    /\ oldNavs = << >>
    /\ passes = << >>
    /\ bootPending = FALSE
    /\ conversations = EmptyConversations
    /\ chat = IdleChat
    /\ ops = NoOps
    /\ call = NoCall

NextCreate ==
    \/ ChatStart
    \/ ChatSettings(TRUE)
    \/ ChatContext("ok")
    \/ ChatHistory
    \/ ChatSaveUserRead
    \/ ChatSaveUserWrite
    \/ ChatExisting
    \/ \E resp \in NamingResponses : ChatLlmReturn(resp)
    \/ ChatAddRead
    \/ ChatAddWrite
    \/ \E ok \in BOOLEAN : ChatReload(ok)
    \/ \E ok \in BOOLEAN : ChatInject(ok)
    \/ ChatExecute
    \/ ChatSaveAssistantRead
    \/ ChatSaveAssistantWrite
    \/ \E id \in ElementIds : RemoveElement(id)

SpecCreate == InitCreate /\ [][NextCreate]_vars

\* The stored elements a turn is offered: enabled, and stored for the
\* normalized URL of the tab.
OfferedNow ==
    SelectSeq(elements, LAMBDA el : /\ el.enabled
                                    /\ el.url.path = chat.tabUrl.path
                                    /\ el.url.search = chat.tabUrl.search)

\* C37: the elements a turn takes as existing are the enabled stored
\* elements of the tab's URL; a final answer with an element that names an
\* id none of them has is a create, of an element whose id no stored element
\* has; the write of the create is the list it read with the new element
\* appended, and no other step of the turn changes the list.
C37_UnmatchedIdCreates ==
    /\ [][(chat.pc = "existing" /\ chat'.pc # "existing") =>
            chat'.existing = OfferedNow]_vars
    /\ [][(/\ chat.pc = "llm" /\ chat'.pc # "llm" /\ chat'.parsed.element # << >>
           /\ chat'.parsed.element[1].elementId # ""
           /\ FindElement(chat.existing, chat'.parsed.element[1].elementId) = << >>) =>
            /\ chat'.plan = "create" /\ chat'.pc = "addRead"
            /\ chat'.element[1].id \notin StoredIds
            /\ chat'.element[1].enabled
            /\ chat'.element[1].url = NormalizeUrl(chat.tabUrl)]_vars
    /\ [][(chat' # chat /\ elements' # elements) =>
            /\ chat.pc = "addWrite"
            /\ elements' = Append(chat.elemBuf, chat.element[1])
            /\ \A k \in 1..Len(chat.elemBuf) : chat.elemBuf[k].id # chat.element[1].id]_vars

\* The answer named e1, which is stored but was not offered; the turn has
\* returned, and e1 is stored as before next to the new element e2.
C37_Witness ==
    /\ chat.pc = "done" /\ chat.plan = "create"
    /\ chat.parsed.element[1].elementId = "e1"
    /\ Len(elements) = 2
    /\ elements[1] = StoredElement("e1", Url("/a", "", ""), FALSE, JsText(NoProgram),
                                   <<"c", Ws, "d">>)
    /\ elements[2].id = "e2"

-----------------------------------------------------------------------------
(* Chat view: handleSend                                                   *)

\* The chat view: the text of the input, the flag isProcessing, where the
\* running handleSend is, the CHAT_MESSAGE requests without a response yet,
\* and counts of what was shown.
IdleView ==
    [input |-> EmptyText, isProcessing |-> FALSE, pc |-> "idle", inFlight |-> 0,
     accepted |-> 0, ignored |-> 0, shown |-> "none"]

\* A send is accepted whenever there is a prompt.
CanSendAnyTime(view) == Trim(view.input) # EmptyText

\* if (!prompt || isProcessing) return;
CanSend(view) == Trim(view.input) # EmptyText /\ ~view.isProcessing

\* The user types in the input, or clears it.
TypeInput(text) ==
    /\ call.input # text
    /\ call' = [call EXCEPT !.input = text]
    /\ IdleUnchanged

\* The send button or Enter: handleSend up to its first await.
HandleSend ==
    /\ call.accepted + call.ignored < MaxSends
    /\ call' = IF CanSend(call)
                 THEN [call EXCEPT !.input = EmptyText, !.isProcessing = TRUE,
                                   !.pc = "query", !.accepted = @ + 1]
                 ELSE [call EXCEPT !.ignored = @ + 1]
    /\ IdleUnchanged

\* chrome.tabs.query resolves: with a tab CHAT_MESSAGE is sent; without one
\* the handler throws, shows the error and clears the flag.
SendQuery(hasTab) ==
    /\ call.pc = "query"
    /\ call' = IF hasTab
                 THEN [call EXCEPT !.pc = "waiting", !.inFlight = @ + 1]
                 ELSE [call EXCEPT !.pc = "idle", !.isProcessing = FALSE,
                                   !.shown = "error"]
    /\ IdleUnchanged

\* The turn's outcome arrives: a message, an error response, or a rejected
\* sendMessage; it is shown, and finally clears the flag.
SendOutcome(outcome) ==
    /\ call.pc = "waiting"
    /\ call' = [call EXCEPT !.pc = "idle", !.isProcessing = FALSE,
                            !.inFlight = @ - 1,
                            !.shown = IF outcome = "message" THEN "assistant" ELSE "error"]
    /\ IdleUnchanged

InitSend ==
    /\ InitIdle
    /\ call = IdleView

NextSend ==
    \/ \E text \in {EmptyText, <<Ws>>, <<"p">>} : TypeInput(text)
    \/ HandleSend
    \/ \E hasTab \in BOOLEAN : SendQuery(hasTab)
    \/ \E outcome \in {"message", "error", "thrown"} : SendOutcome(outcome)

SpecSend == InitSend /\ [][NextSend]_vars

\* C30: the view has at most one CHAT_MESSAGE without a response, and the
\* flag is set exactly while a handleSend is running; a send while the flag
\* is set changes nothing but the count of ignored sends; every outcome of a
\* turn, and a failed tab query, clears the flag; and a send with a prompt
\* while the flag is clear is accepted.
C30_OneTurnInFlight ==
    /\ [](call.inFlight <= 1)
    /\ [](call.isProcessing <=> call.pc # "idle")
    /\ [](call.inFlight = 1 <=> call.pc = "waiting")
    /\ [][(HandleSend /\ call.isProcessing) =>
            call' = [call EXCEPT !.ignored = @ + 1]]_vars
    /\ [][(call.pc # "idle" /\ call'.pc = "idle") =>
            ~call'.isProcessing /\ call'.inFlight = 0 /\ call'.shown # "none"]_vars
    /\ [][(HandleSend /\ ~call.isProcessing /\ Trim(call.input) # EmptyText) =>
            call'.isProcessing /\ call'.pc = "query"]_vars

\* A send was ignored while a turn was outstanding, that turn ended in an
\* error, and a later send was accepted.
C30_Witness ==
    /\ call.ignored >= 1
    /\ call.accepted = 2
    /\ call.shown = "error"
    /\ call.pc = "waiting"

-----------------------------------------------------------------------------
(* Service worker: handleElementCodeChat                                   *)

\* The code types the detail view sends (its two tabs).
CodeTypes == {"js", "css"}

\* The element's code a reply may carry: none (a plain answer, or JSON with
\* no code field), the empty text, or a new text.
NoCode == <<"no code">>
ReplyCodes == { NoCode, EmptyText, <<"new">> }

\* No ELEMENT_CODE_CHAT request is being served.
IdleCodeChat ==
    [pc |-> "idle", elementId |-> "", codeType |-> "", element |-> << >>,
     updatedCode |-> NoCode, codeUpdate |-> << >>, elemBuf |-> << >>,
     result |-> [error |-> "", codeUpdated |-> FALSE], reloaded |-> FALSE]

\* Step 7, with the reply's code written to both halves.
CodeUpdateBothHalves(element, codeType, updatedCode) ==
    [js |-> updatedCode, css |-> updatedCode]

\* Step 7: codeUpdate.code, built from the reply's code and the element read
\* at step 2.
CodeUpdate(element, codeType, updatedCode) ==
    [js |-> IF codeType = "js" THEN updatedCode ELSE element.js,
     css |-> IF codeType = "css" THEN updatedCode ELSE element.css]

\* Steps 1-2: the settings hold a key; getElements and find by id.
CodeChatStart(id, codeType) ==
    /\ call.pc = "idle"
    /\ LET found == FindElement(elements, id)
       IN  call' = IF found = << >>
                     THEN [call EXCEPT !.pc = "done", !.elementId = id, !.codeType = codeType,
                                       !.result.error = "Element not found"]
                     ELSE [call EXCEPT !.pc = "llm", !.elementId = id, !.codeType = codeType,
                                       !.element = found]
    /\ IdleUnchanged

\* Step 5: callLLM throws.
CodeChatLlmError ==
    /\ call.pc = "llm"
    /\ call' = [call EXCEPT !.pc = "done", !.result.error = "LLM API error"]
    /\ IdleUnchanged

\* Steps 5-7: the reply is parsed; with a code field the update is built,
\* without one the call returns codeUpdated: false.
CodeChatLlmReturn(code) ==
    /\ call.pc = "llm"
    /\ call' = IF code = NoCode
                 THEN [call EXCEPT !.pc = "done"]
                 ELSE [call EXCEPT !.pc = "updateRead", !.updatedCode = code,
                                   !.codeUpdate =
                                       << CodeUpdate(call.element[1], call.codeType, code) >>]
    /\ IdleUnchanged

\* updateElement(elementId, codeUpdate): getElements.
CodeChatUpdateRead ==
    /\ call.pc = "updateRead"
    /\ call' = [call EXCEPT !.pc = "updateWrite", !.elemBuf = elements]
    /\ IdleUnchanged

\* updateElement: findIndex, merge, set; nothing is written when no element
\* of the list read has the id.
CodeChatUpdateWrite ==
    /\ call.pc = "updateWrite"
    /\ elements' = IF FindElement(call.elemBuf, call.elementId) = << >>
                     THEN elements
                     ELSE UpdateElementIn(call.elemBuf, call.elementId,
                                          call.codeUpdate[1].js, call.codeUpdate[1].css)
    /\ call' = [call EXCEPT !.pc = "reload", !.elemBuf = << >>]
    /\ UNCHANGED <<ops, chat, conversations>>
    /\ UNCHANGED pageVars

\* chrome.tabs.reload(tabId), which may fail; the call returns
\* codeUpdated: true either way.
CodeChatReload(ok) ==
    /\ call.pc = "reload"
    /\ IF ok THEN PageLoadEffect(href) /\ UNCHANGED links
             ELSE UNCHANGED pageVars
    /\ call' = [call EXCEPT !.pc = "done", !.result.codeUpdated = TRUE, !.reloaded = ok]
    /\ UNCHANGED <<ops, chat, conversations, elements>>

\* The response was sent; the next request may come.
CodeChatReturn ==
    /\ call.pc = "done"
    /\ call' = IdleCodeChat
    /\ IdleUnchanged

\* The stored elements before a request: e1 and e2 on one page.
InitCodeChat ==
    /\ href = Url("/a", "", "")
    /\ links = {}
    /\ lastKnownUrl = href
    /\ styleNodes = [id \in ElementIds |-> 0]
    /\ nodes = [t \in Tags |-> 0]
    /\ targetPresent = FALSE
    /\ execQueue = << >>
    /\ cycles = [c \in 1..1 |-> IdleCycle]
    /\ nav = IdleNav
    /\ oldNavs = << >>
    /\ passes = << >>
    /\ bootPending = FALSE
    /\ conversations = EmptyConversations
    /\ chat = IdleChat
    /\ ops = NoOps
    /\ \E en \in BOOLEAN, js \in {EmptyText, JsText(ProgramWidget)}, css \in {EmptyText, <<"c">>} :
          elements = << StoredElement("e1", Url("/a", "", ""), en, js, css),
                        StoredElement("e2", Url("/a", "", ""), TRUE, JsText(ProgramQuiet), <<"c">>) >>
    /\ call = IdleCodeChat

NextCodeChat ==
    \/ \E id \in ElementIds, codeType \in CodeTypes : CodeChatStart(id, codeType)
    \/ CodeChatLlmError
    \/ \E code \in ReplyCodes : CodeChatLlmReturn(code)
    \/ CodeChatUpdateRead
    \/ CodeChatUpdateWrite
    \/ \E ok \in BOOLEAN : CodeChatReload(ok)
    \/ CodeChatReturn
    \/ \E id \in ElementIds, enabled \in BOOLEAN : ToggleElement(id, enabled)
    \/ \E id \in ElementIds : RemoveElement(id)

SpecCodeChat == InitCodeChat /\ [][NextCodeChat]_vars

\* The half of an element's code a code type names, and the other half.
Half(el, codeType) == IF codeType = "css" THEN el.css ELSE el.js
OtherHalf(el, codeType) == IF codeType = "css" THEN el.js ELSE el.css

\* C26: a code chat writes the element list only in updateElement, and only
\* after a reply with code; the list written is the list updateElement read
\* with, at the element of the id, the half named by the code type replaced
\* by the reply's code as a whole and the other half, the id, the url and
\* the enabled flag as read; a reply without code ends the call with
\* codeUpdated false and no write.
C26_CodeChatReplacesOneHalf ==
    /\ [][(call' # call /\ elements' # elements) =>
            /\ call.pc = "updateWrite"
            /\ call.updatedCode # NoCode
            /\ Len(elements') = Len(call.elemBuf)
            /\ \A k \in 1..Len(elements') :
                  IF call.elemBuf[k].id = call.elementId
                    THEN /\ Half(elements'[k], call.codeType) = call.updatedCode
                         /\ OtherHalf(elements'[k], call.codeType) =
                               OtherHalf(call.elemBuf[k], call.codeType)
                         /\ elements'[k].id = call.elemBuf[k].id
                         /\ elements'[k].url = call.elemBuf[k].url
                         /\ elements'[k].enabled = call.elemBuf[k].enabled
                    ELSE elements'[k] = call.elemBuf[k]]_vars
    /\ [][(call.pc = "updateWrite" /\ call' # call
             /\ FindElement(call.elemBuf, call.elementId) # << >>) =>
            \E k \in 1..Len(elements') :
                /\ elements'[k].id = call.elementId
                /\ Half(elements'[k], call.codeType) = call.updatedCode]_vars
    /\ [][(call.pc = "llm" /\ call'.pc = "done") =>
            /\ call'.result.codeUpdated = FALSE
            /\ elements' = elements]_vars
    /\ [](call.pc = "done" /\ ~call.result.codeUpdated => call.updatedCode = NoCode)

\* A css edit of e1 was written while e1 holds a script, after the panel
\* had switched e1 off during the call.
C26_Witness ==
    /\ call.pc = "done" /\ call.result.codeUpdated
    /\ call.elementId = "e1" /\ call.codeType = "css"
    /\ call.element[1].enabled
    /\ \E k \in 1..Len(elements) :
          /\ elements[k].id = "e1" /\ ~elements[k].enabled
          /\ elements[k].css = <<"new">> /\ elements[k].js = JsText(ProgramWidget)

-----------------------------------------------------------------------------
(* Service worker: two chat turns at once, on tabs showing different URLs  *)

Turns == {1, 2}

\* The tab URL of each turn.
TurnUrl(t) == IF t = 1 THEN Url("/a", "", "") ELSE Url("/b", "", "")

\* The prompt of each turn.
TurnPrompt(t) == IF t = 1 THEN <<"prompt", "1">> ELSE <<"prompt", "2">>

\* A handleChat call: its position, the storage value its pending
\* read-modify-write has read, and the element it has built.
IdleTurn == [pc |-> "idle", convBuf |-> EmptyConversations, elemBuf |-> << >>, element |-> << >>]

NoTurns == [turns |-> [t \in Turns |-> IdleTurn], issued |-> {}]

TurnsUnchanged ==
    UNCHANGED <<ops, chat, href, links, lastKnownUrl, styleNodes, nodes, targetPresent,
                execQueue, cycles, nav, oldNavs, passes, bootPending>>

\* CHAT_MESSAGE for the tab of turn t; steps 1 to 3 pass.
TurnStart(t) ==
    /\ call.turns[t].pc = "idle"
    /\ call' = [call EXCEPT !.turns[t].pc = "saveUser"]
    /\ UNCHANGED <<elements, conversations>>
    /\ TurnsUnchanged

\* Step 4, addToConversation: the read of the map of logs.
TurnSaveUserRead(t) ==
    /\ call.turns[t].pc = "saveUser"
    /\ call' = [call EXCEPT !.turns[t].pc = "saveUserWrite",
                            !.turns[t].convBuf = conversations]
    /\ UNCHANGED <<elements, conversations>>
    /\ TurnsUnchanged

\* Step 4, addToConversation: the write of the map with the prompt appended.
TurnSaveUserWrite(t) ==
    /\ call.turns[t].pc = "saveUserWrite"
    /\ conversations' = AddToConversation(call.turns[t].convBuf, TurnUrl(t),
                                          Message("user", TurnPrompt(t), FALSE, FALSE))
    /\ call' = [call EXCEPT !.turns[t].pc = "llm",
                            !.turns[t].convBuf = EmptyConversations]
    /\ UNCHANGED elements
    /\ TurnsUnchanged

\* Steps 5 to 9: the model answers with an element and no elementId; the
\* element is built with generateId().
TurnLlmCreate(t) ==
    /\ call.turns[t].pc = "llm"
    /\ LET id == GenerateIdAfter(call.issued)
       IN  call' = [call EXCEPT !.turns[t].pc = "addRead",
                                !.turns[t].element =
                                    << StoredElement(id, NormalizeUrl(TurnUrl(t)), TRUE,
                                                     EmptyText, <<"c">>) >>,
                                !.issued = @ \cup {id}]
    /\ UNCHANGED <<elements, conversations>>
    /\ TurnsUnchanged

\* Step 9, addElement: the read of the list.
TurnAddRead(t) ==
    /\ call.turns[t].pc = "addRead"
    /\ call' = [call EXCEPT !.turns[t].pc = "addWrite", !.turns[t].elemBuf = elements]
    /\ UNCHANGED <<elements, conversations>>
    /\ TurnsUnchanged

\* Step 9, addElement: the write of the list with the element appended; the
\* reload of the tab follows.
TurnAddWrite(t) ==
    /\ call.turns[t].pc = "addWrite"
    /\ elements' = Append(call.turns[t].elemBuf, call.turns[t].element[1])
    /\ call' = [call EXCEPT !.turns[t].pc = "saveAssistant", !.turns[t].elemBuf = << >>]
    /\ UNCHANGED conversations
    /\ TurnsUnchanged

\* Step 10, addToConversation: the read of the map of logs.
TurnSaveAssistantRead(t) ==
    /\ call.turns[t].pc = "saveAssistant"
    /\ call' = [call EXCEPT !.turns[t].pc = "saveAssistantWrite",
                            !.turns[t].convBuf = conversations]
    /\ UNCHANGED <<elements, conversations>>
    /\ TurnsUnchanged

\* Step 10, addToConversation: the write of the map; step 11: return.
TurnSaveAssistantWrite(t) ==
    /\ call.turns[t].pc = "saveAssistantWrite"
    /\ conversations' = AddToConversation(call.turns[t].convBuf, TurnUrl(t),
                                          Message("assistant", <<"Done!">>, TRUE, FALSE))
    /\ call' = [call EXCEPT !.turns[t].pc = "done",
                            !.turns[t].convBuf = EmptyConversations]
    /\ UNCHANGED elements
    /\ TurnsUnchanged

InitTurns ==
    /\ InitIdle
    /\ call = NoTurns

NextTurns ==
    \/ \E t \in Turns : TurnStart(t)
    \/ \E t \in Turns : TurnSaveUserRead(t)
    \/ \E t \in Turns : TurnSaveUserWrite(t)
    \/ \E t \in Turns : TurnLlmCreate(t)
    \/ \E t \in Turns : TurnAddRead(t)
    \/ \E t \in Turns : TurnAddWrite(t)
    \/ \E t \in Turns : TurnSaveAssistantRead(t)
    \/ \E t \in Turns : TurnSaveAssistantWrite(t)

SpecTurns == InitTurns /\ [][NextTurns]_vars

\* C24 (as claimed): when two turns on different URLs that each create an
\* element have both returned, the stored list holds both elements and the
\* log of each URL holds that turn's prompt and its assistant message.
C24_ConcurrentTurnsLoseNothing ==
    (\A t \in Turns : call.turns[t].pc = "done") =>
        /\ \A t \in Turns :
              \E k \in 1..Len(elements) : elements[k] = call.turns[t].element[1]
        /\ \A t \in Turns :
              conversations[NormalizeUrl(TurnUrl(t))]
                 = << Message("user", TurnPrompt(t), FALSE, FALSE),
                      Message("assistant", <<"Done!">>, TRUE, FALSE) >>

----------------------------------------------------------------------------
(* Claims about the chat turn, continued (SpecChat)                        *)

\* C21: a turn in which a model call fails, in whatever round, returns the
\* error and nothing else; the log of its URL holds the prompt as its one
\* entry; the step of the failure changes neither the element list nor the
\* page, and the turn has sent nothing to the tab and prepared no element.
C21_LlmFailureKeepsPromptOnly ==
    /\ [](chat.pc = "done" /\ chat.result.error = "LLM API error" =>
            /\ chat.result = [NoResult EXCEPT !.error = "LLM API error"]
            /\ conversations[NormalizeUrl(chat.tabUrl)]
                  = << Message("user", <<"prompt">>, FALSE, FALSE) >>
            /\ chat.sent = << >>
            /\ chat.element = << >>
            /\ chat.plan = "none")
    /\ [][(chat.pc = "llm" /\ chat'.pc = "done") =>
            /\ elements' = elements
            /\ conversations' = conversations
            /\ UNCHANGED pageVars]_vars

\* The model call of a later round has failed, after fragments were fetched.
C21_Witness ==
    /\ chat.pc = "done" /\ chat.result.error = "LLM API error"
    /\ chat.round >= 1 /\ chat.calls >= 2

\* What a turn may have sent to its tab so far, by what it decided.
SentSoFar(plan) ==
    CASE plan = "update" ->
            { << >>, <<"REMOVE_ELEMENT">>, <<"REMOVE_ELEMENT", "reload">>,
              <<"REMOVE_ELEMENT", "INJECT_ELEMENT">>,
              <<"REMOVE_ELEMENT", "INJECT_ELEMENT", "executeScript">> }
      [] plan = "create" ->
            { << >>, <<"reload">>, <<"INJECT_ELEMENT">>,
              <<"INJECT_ELEMENT", "executeScript">> }
      [] OTHER -> { << >> }

\* C25: in the apply step the tab is sent REMOVE_ELEMENT first (update
\* only), then the reload or, in its place, INJECT_ELEMENT and the script;
\* the reload is requested only once the list is written, by the step that
\* wrote it; the injection is started only by a reload that failed, and a
\* reload that succeeded ends the apply step.
C25_WriteThenReloadElseInject ==
    /\ [](chat.sent \in SentSoFar(chat.plan))
    /\ [][(chat'.pc = "reload" /\ chat.pc # "reload") =>
            \/ /\ chat.pc = "addWrite"
               /\ chat.sent = << >>
               /\ elements' # << >> /\ elements'[Len(elements')] = chat.element[1]
            \/ /\ chat.pc = "updateWrite"
               /\ chat.sent = <<"REMOVE_ELEMENT">>
               /\ chat'.element # << >> =>
                     \E k \in 1..Len(elements') : elements'[k] = chat'.element[1]]_vars
    /\ [][(chat'.pc = "inject" /\ chat.pc # "inject") =>
            /\ chat.pc = "reload"
            /\ chat'.sent = chat.sent
            /\ UNCHANGED pageVars]_vars
    /\ [][(chat.pc = "reload" /\ chat'.pc # "reload" /\ chat'.pc # "inject") =>
            /\ chat'.pc = "saveAssistant"
            /\ chat'.sent = Append(chat.sent, "reload")]_vars
    /\ [][(chat'.sent # chat.sent /\ chat'.sent # << >>
             /\ chat'.sent[Len(chat'.sent)] \in {"INJECT_ELEMENT", "executeScript"}) =>
            chat.pc \in {"inject", "execute"}]_vars

\* An update whose reload failed has removed the old version, injected the
\* style sheet and run the script, and the turn has returned.
C25_Witness ==
    /\ chat.pc = "done" /\ chat.isUpdate
    /\ chat.sent = <<"REMOVE_ELEMENT", "INJECT_ELEMENT", "executeScript">>

-----------------------------------------------------------------------------
(* Claims about the stored elements, continued (SpecStore)                 *)

\* C27 (as claimed): the auto-load pass of a page shows every enabled
\* stored element whose url has the page's protocol, host and path, whatever
\* the query strings and the fragments of the two URLs.
C27_QueryAndFragmentIgnored ==
    [][\A i \in 1..Len(passes) :
         PassResume(i) =>
           \A k \in 1..Len(elements) :
              (elements[k].url.path = passes[i].path /\ elements[k].enabled) =>
                  elements[k].id \in InjectedIds']_vars

-----------------------------------------------------------------------------
(* Claims about the update of a chat turn (SpecChat)                       *)

\* C31: the write of an update leaves, at the element named by the answer,
\* for each of js and css the answer's half if it has one and else the half
\* of the stored element, which is also the half the turn was offered.
C31_OmittedHalfFallsBack ==
    [][(chat.pc = "updateWrite" /\ chat'.pc = "reload") =>
          LET el == chat.parsed.element[1]
              old == FindElement(chat.existing, el.elementId)
          IN  /\ old # << >>
              /\ \A k \in 1..Len(chat.elemBuf) :
                    chat.elemBuf[k].id = el.elementId =>
                       /\ elements'[k].js = IF el.js # EmptyText THEN el.js
                                            ELSE chat.elemBuf[k].js
                       /\ elements'[k].css = IF el.css # EmptyText THEN el.css
                                             ELSE chat.elemBuf[k].css
                       /\ el.js = EmptyText => elements'[k].js = old[1].js
                       /\ el.css = EmptyText => elements'[k].css = old[1].css]_vars

\* An update whose answer had no js has returned; e1 holds its old script
\* and the answer's style sheet.
C31_Witness ==
    /\ chat.pc = "done" /\ chat.isUpdate
    /\ chat.parsed.element[1].js = EmptyText
    /\ elements # << >>
    /\ elements[1].js = JsText(NoProgram)
    /\ elements[1].css = <<"c", Ws, Ws, "d">>

-----------------------------------------------------------------------------
(* Claims about in-page navigation, continued (SpecNav)                    *)

\* C33 (as claimed): once an attempt of the current navigation cycle has
\* been made and the stored element of the page is in place again, with no
\* pass left to resume, the cycle makes no further attempt.
C33_CycleStopsOnceLoaded ==
    [][(/\ nav.active /\ nav.calls >= 1
        /\ passes = << >>
        /\ \E k \in 1..Len(elements) :
              /\ elements[k].enabled
              /\ NormalizeUrl(elements[k].url) = NormalizeUrl(href)
              /\ styleNodes[elements[k].id] > 0) =>
            nav'.calls <= nav.calls]_vars

\* C35: of the navigation closures of a page only the current one can be
\* not done: handleUrlChange leaves the closure it replaces done, with no
\* timer and no observer; cancel changes nothing on a closure that is done;
\* and a timer of a replaced closure that still fires starts no pass.
C35_OneActiveNavCycle ==
    /\ [](\A i \in 1..Len(oldNavs) :
            /\ oldNavs[i].done /\ ~oldNavs[i].timer /\ ~oldNavs[i].observer
            /\ NavCleanup(oldNavs[i]) = oldNavs[i])
    /\ [](nav.done => NavCleanup(nav) = nav)
    /\ [][HandleUrlChange =>
            /\ nav' = NewNav
            /\ Len(oldNavs') > Len(oldNavs) =>
                  oldNavs'[Len(oldNavs')] = [nav EXCEPT !.done = TRUE, !.timer = FALSE,
                                                        !.observer = FALSE]]_vars
    /\ [][\A i \in 1..Len(oldNavs) :
            OldNavDebounceFire(i) => passes' = passes /\ UNCHANGED <<styleNodes, nodes>>]_vars

\* A closure that had made an attempt was replaced while its debounce timer
\* was pending, and the closure that replaced it has made an attempt.
C35_Witness ==
    /\ Len(oldNavs) >= 1
    /\ oldNavs[1].calls >= 1 /\ oldNavs[1].debounce
    /\ nav.active /\ ~nav.done /\ nav.calls >= 1

\* C36 (as claimed): once handleUrlChange has purged the page for the URL
\* it shows, every style node tagged with an element id is that of a stored
\* element whose normalized url is the normalized URL of the page.
C36_NoStyleOfTheOutgoingUrl ==
    (nav.active /\ lastKnownUrl = href) =>
        \A id \in ElementIds :
            styleNodes[id] > 0 =>
                \E k \in 1..Len(elements) :
                    /\ elements[k].id = id
                    /\ NormalizeUrl(elements[k].url) = NormalizeUrl(href)

-----------------------------------------------------------------------------
(* Claims about script execution, continued (SpecExec)                     *)

\* An element with a style sheet has its style node from each inject until
\* the next remove: with no style node in the page, the last message for the
\* element was a remove.
RemovedLast(id) ==
    /\ styleNodes[id] = 0
    /\ \E k \in 1..Len(elements) : elements[k].id = id /\ elements[k].css # EmptyText

\* C38 (as claimed): while an element has been removed and not injected
\* again, no closure started for it runs its code, and no node the code tags
\* appears in the page.
C38_RemovedElementStaysGone ==
    [][\A c \in Cycles :
         (/\ cycles[c].used /\ RemovedLast(cycles[c].id)
          /\ styleNodes'[cycles[c].id] = 0) =>
            /\ cycles'[c].runs = cycles[c].runs
            /\ nodes'[cycles[c].code.marker] <= nodes[cycles[c].code.marker]]_vars

\* C39: every closure that was started and has not settled settles, by a
\* successful attempt or by giving up, whatever the page does to its body
\* and even if no debounce timer ever fires.
C39_EveryCycleSettles ==
    \A c \in 1..2 :
        (cycles[c].used /\ ~cycles[c].settled) ~>
            (cycles[c].settled /\ cycles[c].outcome \in {"success", "exhausted"})

\* A closure has given up while the page was still changing: its debounce
\* timer is set and never fired for the last change; the other closure
\* settled by a successful attempt.
C39_Witness ==
    \E c, d \in Cycles :
        /\ cycles[c].settled /\ cycles[c].outcome = "exhausted" /\ cycles[c].debounce
        /\ cycles[d].settled /\ cycles[d].outcome = "success"

-----------------------------------------------------------------------------
(* Claims about the update of a chat turn, continued (SpecChat)            *)

\* C40 (as claimed): a turn that returns hasElement and isElementUpdate has
\* written the element: updateElement found the id in the list it read and
\* returned the record, not null.
C40_ReportedUpdateWasWritten ==
    (chat.pc = "done" /\ chat.result.hasElement /\ chat.result.isElementUpdate) =>
        /\ chat.element # << >>
        /\ chat.element[1].id = chat.parsed.element[1].elementId

====
